---- MODULE Spec2Model ----
(***************************************************************************)
(* A model of the os1k kernel (tews-code/operating-system-in-1000-lines):  *)
(* process table, cooperative scheduler, context switch, trap entry and    *)
(* system-call dispatch.  One hart, no interrupts: an action is the code   *)
(* that runs between two suspension points.                                *)
(*                                                                         *)
(* Memory is a sparse map from byte addresses to 32-bit words (a word not  *)
(* in the map is 0, as in the zero-initialised statics).  Registers are a  *)
(* sequence of 31 words in the order of TrapFrame.  A 32-bit word is       *)
(* written as the signed integer with the same bits: usize::MAX is -1, and *)
(* the addresses of RAM (0x80000000 up on the virt machine) are negative;  *)
(* a cast between isize and usize changes nothing.                         *)
(*                                                                         *)
(* Spec is kernel_main as src/kernel/src/main.rs has it: processes, yields *)
(* and the system calls 1..3.  SpecFs adds the boot of the file store from *)
(* the drive and the READFILE and WRITEFILE calls of user programs; byte   *)
(* arrays (file data, disk buffer, drive) are sequences of their real size.*)
(***************************************************************************)
EXTENDS Integers, Sequences, FiniteSets, TLC

\* ------------------------------------------------------------ bounds
\* User processes the kernel context creates.
MaxCreate == 3
\* Words of yield_now's own stack frame (the compiler's choice); the last
\* one holds yield_now's return address.
YieldFrameWords == 1
\* Requests the block driver has issued when a user program still calls
\* READFILE or WRITEFILE.
MaxBlkReqs == 15
\* Requests the block driver has issued when kernel code still calls
\* read_write_disk with a sector of the device.
MaxBlkCalls == 2
\* Requests the driver has made when a user program may still call
\* writefile.
MaxDiskReqs == 16
\* Pages of free RAM between __free_ram and __free_ram_end.
FreeRamPages == 24
\* Regions the allocator has handed out when kernel code still calls alloc
\* directly.
MaxAllocs == 3

\* ------------------------------------------------- program constants
PROCS_MAX == 8
IDLE_PID == 0
STACK_BYTES == 8192
WORD_BYTES == 4
CALLEE_SAVED == 13
FRAME_WORDS == 31
SCAUSE_ECALL == 8
USER_BASE == 16777216
SSTATUS_SPIE == 32
SSTATUS_SUM == 262144
SATP_SV32 == -2147483647 - 1
PAGE_SIZE == 4096
SYS_PUTBYTE == 1
SYS_GETCHAR == 2
SYS_EXIT == 3
SYS_READFILE == 4
SYS_WRITEFILE == 5

\* Option::None of IDLE_PROC / CURRENT_PROC, and of an index lookup.
NoPid == -1
NoIdx == -1

\* Positions (1-based) of the registers in TrapFrame.
RA == 1
A0 == 11
A1 == 12
A2 == 13
A3 == 14
A4 == 15
S0 == 19
S1 == 20
S11 == 30
SP == 31

\* Link-time layout, symbolic: the PROCS array, the stride between the
\* stacks of two neighbouring PCBs, the boot stack, the page tables.
PROCS_STACKS == -2144337920
PROC_STRIDE == 8208
STACK_TOP == -2144862208
PT_BASE == -2143289344

\* Code addresses, symbolic.
USER_ENTRY_ADDR == -2145386240
RA_YIELD == -2145385984
RA_GETCHAR == -2145385728
RA_EXIT == -2145385472
RA_KMAIN == -2145385216
KERNEL_FAULT_PC == -2145384960
NAME_PTR == 16777472
BUF_PTR == 16781312

\* What compiled kernel code leaves in a caller-saved register.
Clobbered == -559038737

Slots == 0 .. (PROCS_MAX - 1)
\* Stack owners: a PCB slot, or the boot stack.
BootStack == PROCS_MAX

VARIABLES
    procs,          \* PROCS: slot -> [pid, state, sp, page_table]
    IDLE_PROC,      \* Option<usize>
    CURRENT_PROC,   \* Option<usize>
    kmem,           \* kernel memory: address -> word
    regs,           \* the hart's registers, TrapFrame order, regs[SP] = sp
    sscratch, sepc, scause, sstatus, satp,
    kpc,            \* where the hart executes
    panic,          \* "" or the panic message
    console,        \* last byte handed to SBI putchar, -1 before any
    sched_trace,    \* history: pids chosen by yield_now since the set of
                    \* Runnable processes last changed
    saved,          \* history: stack owner -> registers at its switch-out
    sw,             \* history: the last switch-in, restored and expected
    ecall,          \* history: satp -> registers and pc at its last ecall
    files,          \* FILES: slot -> [in_use, name, data, size]
    disk,           \* DISK: the bytes of the disk buffer
    blk,            \* the block device and the driver's BLK_CAPACITY, avail.index
    umem,           \* user memory: satp -> [name, buf] of its file system call
    codec,          \* the number and the byte field between int2oct and oct2int
    ALLOCATOR,      \* ALLOCATOR: Option<PAddr>, the cursor of the page allocator
    ram,            \* free RAM: page -> its bytes and the words stored over them
    heap,           \* history: the regions alloc has returned, [size, paddr]
    images,         \* history: slot -> [img, size, data] of the image copy create_process leaked
    locks,          \* the SpinLocks that are locked
    sw_locks,       \* history: the SpinLocks locked at the last call of switch_context
    rw,             \* history: the last call of read_write_disk
    poll,           \* history: the last get_char() of a GETCHAR loop that was noted
    yield_ops       \* history: what the last yield_now did to the hart, in order

vars == << procs, IDLE_PROC, CURRENT_PROC, kmem, regs, sscratch, sepc, scause,
           sstatus, satp, kpc, panic, console, sched_trace, saved, sw, ecall,
           files, disk, blk, umem, codec, ALLOCATOR, ram, heap, images, locks,
           sw_locks, rw, poll, yield_ops >>

\* ------------------------------------------------------------ helpers
Min(S) == CHOOSE x \in S : \A y \in S : x <= y

RECURSIVE BitOrNat(_, _)
BitOrNat(a, b) ==
    IF a = 0 THEN b
    ELSE IF b = 0 THEN a
    ELSE (IF a % 2 = 1 \/ b % 2 = 1 THEN 1 ELSE 0)
         + 2 * BitOrNat(a \div 2, b \div 2)

\* The low 31 bits of a word.
Low31(a) == IF a < 0 THEN (a + 2147483647) + 1 ELSE a

\* a | b on 32-bit words.
BitOr(a, b) ==
    LET lo == BitOrNat(Low31(a), Low31(b))
    IN  IF a < 0 \/ b < 0 THEN (lo - 2147483647) - 1 ELSE lo

Rd(m, a) == IF a \in DOMAIN m THEN m[a] ELSE 0

Wr(m, a, v) == (a :> v) @@ m

\* Store the words of seq at base, base + 4, ...
WrSeq(m, base, seq) ==
    LET new == { base + WORD_BYTES * (k - 1) : k \in 1 .. Len(seq) }
    IN  [ a \in (DOMAIN m) \cup new |->
            IF a \in new THEN seq[((a - base) \div WORD_BYTES) + 1]
            ELSE m[a] ]

RdSeq(m, base, n) == [ k \in 1 .. n |-> Rd(m, base + WORD_BYTES * (k - 1)) ]

StackBase(i) == PROCS_STACKS + i * PROC_STRIDE
StackEnd(i) == StackBase(i) + STACK_BYTES

\* The stack an address lies in (an sp one past the end counts as in).
StackOwner(a) ==
    IF \E i \in Slots : StackBase(i) < a /\ a <= StackEnd(i)
    THEN CHOOSE i \in Slots : StackBase(i) < a /\ a <= StackEnd(i)
    ELSE IF STACK_TOP - STACK_BYTES < a /\ a <= STACK_TOP THEN BootStack
    ELSE NoIdx

PageTableAddr(i) == PT_BASE + i * PAGE_SIZE

\* Values compiled kernel code keeps in s2..s11 while it runs on a stack.
KVal(owner, k) == 900000 + 100 * owner + k

\* ------------------------------------------------------ process table
EmptyProcess == [ pid |-> 0, state |-> "Unused", sp |-> 0, page_table |-> 0 ]

\* Mutant: the last PCB with the pid (rposition) instead of the first.
TryGetIndex_Last(ps, pid) ==
    LET S == { i \in Slots : ps[i].pid = pid }
    IN  IF S = {} THEN NoIdx ELSE CHOOSE x \in S : \A y \in S : y <= x

TryGetIndex(ps, pid) ==
    LET S == { i \in Slots : ps[i].pid = pid }
    IN  IF S = {} THEN NoIdx ELSE Min(S)

St == [ procs |-> procs, IDLE_PROC |-> IDLE_PROC,
        CURRENT_PROC |-> CURRENT_PROC, kmem |-> kmem, regs |-> regs,
        sscratch |-> sscratch, sepc |-> sepc, scause |-> scause,
        sstatus |-> sstatus, satp |-> satp, kpc |-> kpc, panic |-> panic,
        console |-> console, sched_trace |-> sched_trace, saved |-> saved,
        sw |-> sw, ecall |-> ecall, files |-> files, disk |-> disk,
        blk |-> blk, umem |-> umem, codec |-> codec, ALLOCATOR |-> ALLOCATOR,
        ram |-> ram, heap |-> heap, images |-> images, locks |-> locks,
        sw_locks |-> sw_locks, rw |-> rw, poll |-> poll, yield_ops |-> yield_ops,
        ret |-> 0, stuck |-> FALSE, snap |-> << >> ]

\* The next state is s; when the hart came to spin in lock() on the way, it
\* is the state at that call.
Commit(s0) ==
    LET s == IF s0.stuck THEN s0.snap ELSE s0
    IN
    /\ procs' = s.procs
    /\ IDLE_PROC' = s.IDLE_PROC
    /\ CURRENT_PROC' = s.CURRENT_PROC
    /\ kmem' = s.kmem
    /\ regs' = s.regs
    /\ sscratch' = s.sscratch
    /\ sepc' = s.sepc
    /\ scause' = s.scause
    /\ sstatus' = s.sstatus
    /\ satp' = s.satp
    /\ kpc' = s.kpc
    /\ panic' = s.panic
    /\ console' = s.console
    /\ sched_trace' = s.sched_trace
    /\ saved' = s.saved
    /\ sw' = s.sw
    /\ ecall' = s.ecall
    /\ files' = s.files
    /\ disk' = s.disk
    /\ blk' = s.blk
    /\ umem' = s.umem
    /\ codec' = s.codec
    /\ ALLOCATOR' = s.ALLOCATOR
    /\ ram' = s.ram
    /\ heap' = s.heap
    /\ images' = s.images
    /\ locks' = s.locks
    /\ sw_locks' = s.sw_locks
    /\ rw' = s.rw
    /\ poll' = s.poll
    /\ yield_ops' = s.yield_ops

\* panic!: the handler prints and loops in wfi.
Panic(s, msg) == [ s EXCEPT !.kpc = "halt", !.panic = msg, !.console = 10 ]

\* SpinLock::lock: the hart spins until the lock is free, then locks it.
\* With one hart and no interrupts a locked lock is never freed: the hart
\* spins for good.  Nothing is locked once the hart has panicked.
Lock(s, l) ==
    IF s.stuck \/ s.kpc = "halt" THEN s
    ELSE IF l \in s.locks THEN [ s EXCEPT !.stuck = TRUE, !.snap = [ s EXCEPT !.kpc = "spin" ] ]
    ELSE [ s EXCEPT !.locks = @ \cup {l} ]

\* The drop of a guard unlocks; a panic drops no guard.
Unlock(s, l) ==
    IF s.stuck \/ s.kpc = "halt" THEN s
    ELSE [ s EXCEPT !.locks = @ \ {l} ]

\* A guard that lives for one statement.
Touch(s, l) == Unlock(Lock(s, l), l)

InitialFrame == [ k \in 1 .. CALLEE_SAVED |-> IF k = 1 THEN USER_ENTRY_ADDR ELSE 0 ]

\* Mutant: pid = index instead of index + 1.
CreateProcess_PidIsIndex(s) ==
    LET free == { i \in Slots : s.procs[i].state = "Unused" }
    IN  IF free = {} THEN Panic(s, "no free process slots")
        ELSE
        LET i == Min(free)
            start == STACK_BYTES - CALLEE_SAVED * WORD_BYTES
            p == [ pid |-> i, state |-> "Runnable", sp |-> StackBase(i) + start,
                   page_table |-> PageTableAddr(i) ]
        IN  [ s EXCEPT !.procs = [ @ EXCEPT ![i] = p ],
                       !.kmem = WrSeq(@, StackBase(i) + start, InitialFrame),
                       !.ret = i, !.sched_trace = << >> ]

\* Mutant: the search takes the last Unused PCB instead of the first.
CreateProcess_LastUnused(s0) ==
    LET s == Lock(s0, "PROCS")
        free == { i \in Slots : s.procs[i].state = "Unused" }
    IN  IF free = {} THEN Panic(s, "no free process slots")
        ELSE
        LET i == CHOOSE f \in free : \A g \in free : g <= f
            callee_saved_regs_start == STACK_BYTES - CALLEE_SAVED * WORD_BYTES
            m == WrSeq(s.kmem, StackBase(i) + callee_saved_regs_start, InitialFrame)
            p == [ pid |-> i + 1, state |-> "Runnable",
                   sp |-> StackBase(i) + callee_saved_regs_start,
                   page_table |-> PageTableAddr(i) ]
        IN  Unlock([ s EXCEPT !.procs = [ @ EXCEPT ![i] = p ], !.kmem = m,
                              !.ret = i + 1, !.sched_trace = << >> ], "PROCS")

\* Mutant: the search takes an Exited PCB as well.
CreateProcess_ReusesExited(s0) ==
    LET s == Lock(s0, "PROCS")
        free == { i \in Slots : s.procs[i].state \in {"Unused", "Exited"} }
    IN  IF free = {} THEN Panic(s, "no free process slots")
        ELSE
        LET i == Min(free)
            callee_saved_regs_start == STACK_BYTES - CALLEE_SAVED * WORD_BYTES
            m == WrSeq(s.kmem, StackBase(i) + callee_saved_regs_start, InitialFrame)
            p == [ pid |-> i + 1, state |-> "Runnable",
                   sp |-> StackBase(i) + callee_saved_regs_start,
                   page_table |-> PageTableAddr(i) ]
        IN  Unlock([ s EXCEPT !.procs = [ @ EXCEPT ![i] = p ], !.kmem = m,
                              !.ret = i + 1, !.sched_trace = << >> ], "PROCS")

\* create_process: under the PROCS lock the first Unused PCB gets the
\* 13-word frame at the end of its stack, a page table, pid = index + 1,
\* Runnable.  s.ret is the pid.
CreateProcess(s0) ==
    LET s == Lock(s0, "PROCS")
        free == { i \in Slots : s.procs[i].state = "Unused" }
    IN  IF free = {} THEN Panic(s, "no free process slots")
        ELSE
        LET i == Min(free)
            callee_saved_regs_start == STACK_BYTES - CALLEE_SAVED * WORD_BYTES
            m == WrSeq(s.kmem, StackBase(i) + callee_saved_regs_start, InitialFrame)
            p == [ pid |-> i + 1, state |-> "Runnable",
                   sp |-> StackBase(i) + callee_saved_regs_start,
                   page_table |-> PageTableAddr(i) ]
        IN  Unlock([ s EXCEPT !.procs = [ @ EXCEPT ![i] = p ], !.kmem = m,
                              !.ret = i + 1, !.sched_trace = << >> ], "PROCS")

\* ---------------------------------------------------------- scheduler
TraceLen == MaxCreate + 2

Trunc(tr) == IF Len(tr) > TraceLen THEN SubSeq(tr, Len(tr) - TraceLen + 1, Len(tr)) ELSE tr

\* Mutant: the search does not skip the idle PCB.
FindNext_KeepsIdle(ps, current_index, idle_pid) ==
    LET D == { d \in 1 .. PROCS_MAX : ps[(current_index + d) % PROCS_MAX].state = "Runnable" }
    IN  IF D = {} THEN idle_pid
        ELSE ps[(current_index + Min(D)) % PROCS_MAX].pid

\* Mutant: the search starts at slot 0 instead of the slot after the current one.
FindNext_FromZero(ps, current_index, idle_pid) ==
    LET D == { d \in Slots : ps[d].state = "Runnable" /\ ps[d].pid # idle_pid }
    IN  IF D = {} THEN idle_pid ELSE ps[Min(D)].pid

\* Mutant: the search does not look at the state of a PCB in use.
FindNext_AnyState(ps, current_index, idle_pid) ==
    LET hit(d) == LET p == ps[(current_index + d) % PROCS_MAX]
                  IN  p.state # "Unused" /\ p.pid # idle_pid
        D == { d \in 1 .. PROCS_MAX : hit(d) }
    IN  IF D = {} THEN idle_pid
        ELSE ps[(current_index + Min(D)) % PROCS_MAX].pid

\* The search of yield_now: PROCS_MAX slots, cyclically from the slot after
\* current_index; the first Runnable PCB whose pid is not idle_pid, else idle_pid.
FindNext(ps, current_index, idle_pid) ==
    LET hit(d) == LET p == ps[(current_index + d) % PROCS_MAX]
                  IN  p.state = "Runnable" /\ p.pid # idle_pid
        D == { d \in 1 .. PROCS_MAX : hit(d) }
    IN  IF D = {} THEN idle_pid
        ELSE ps[(current_index + Min(D)) % PROCS_MAX].pid

\* The rest of the closure of get_or_insert_with, c the state after its
\* create_process: the new PCB gets pid 0, CURRENT_PROC becomes Some(0).
IdleRename(c) ==
    IF c.panic # "" THEN c
    ELSE LET p == Lock(c, "PROCS")
             r == Unlock([ p EXCEPT !.procs =
                             IF TryGetIndex(p.procs, p.ret) = NoIdx THEN @
                             ELSE [ @ EXCEPT ![TryGetIndex(p.procs, p.ret)].pid = IDLE_PID ] ],
                         "PROCS")
         IN  [ Touch(r, "CURRENT_PROC") EXCEPT !.CURRENT_PROC = IDLE_PID,
                                                !.IDLE_PROC = IDLE_PID ]

\* IDLE_PROC.lock().get_or_insert_with(..): on the first yield the idle
\* process is created, its pid set to 0, and CURRENT_PROC set to it.
IdleInit(s0) ==
    LET s == Lock(s0, "IDLE_PROC")
    IN  Unlock(IF s.IDLE_PROC # NoPid THEN s ELSE IdleRename(CreateProcess(s)), "IDLE_PROC")

\* The call of yield_now: its prologue pushes its frame, return address last.
EnterYield(s, site) ==
    LET sp1 == s.regs[SP] - WORD_BYTES * YieldFrameWords
    IN  [ s EXCEPT !.regs = [ @ EXCEPT ![SP] = sp1, ![RA] = site ],
                   !.kmem = Wr(@, sp1 + WORD_BYTES * (YieldFrameWords - 1), site),
                   !.yield_ops = << >> ]

\* The return of yield_now to the address in its frame: the GETCHAR loop,
\* the unreachable! after the yield of EXIT, or kernel_main.
LeaveYield(s) ==
    LET sp0 == s.regs[SP]
        site == Rd(s.kmem, sp0 + WORD_BYTES * (YieldFrameWords - 1))
        s1 == [ s EXCEPT !.regs = [ @ EXCEPT ![SP] = sp0 + WORD_BYTES * YieldFrameWords,
                                             ![RA] = site ] ]
    IN  IF site = RA_GETCHAR THEN [ s1 EXCEPT !.kpc = "getchar_loop" ]
        ELSE IF site = RA_EXIT THEN Panic(s1, "unreachable after SYS_EXIT")
        ELSE IF site = RA_KMAIN THEN [ s1 EXCEPT !.kpc = "kernel_main" ]
        ELSE [ s1 EXCEPT !.kpc = "wild" ]

CalleeSaved(r) == [ k \in 1 .. CALLEE_SAVED |-> IF k = 1 THEN r[RA] ELSE r[S0 + k - 2] ]

\* Mutant: switch_context without `sw sp, (a0)`.
StoreSp_Skipped(ps, prev, sp1) == ps

\* Mutant: `sw sp, (a0)` before the push instead of after it.
StoreSp_BeforePush(ps, prev, sp1) == [ ps EXCEPT ![prev].sp = sp1 + CALLEE_SAVED * WORD_BYTES ]

\* `sw sp, (a0)`: the stack pointer after the push goes into the PCB of prev.
StoreSp(ps, prev, sp1) == [ ps EXCEPT ![prev].sp = sp1 ]

\* switch_context returns to the ra it restored: into yield_now, which
\* returns to its caller, or into user_entry.
Resume(s) ==
    IF s.regs[RA] = RA_YIELD THEN LeaveYield(s)
    ELSE IF s.regs[RA] = USER_ENTRY_ADDR THEN [ s EXCEPT !.kpc = "user_entry" ]
    ELSE [ s EXCEPT !.kpc = "wild" ]

\* The first half of switch_context: push ra, s0..s11, *prev_sp = sp.
SwitchOut(s, prev) ==
    LET sp1 == s.regs[SP] - CALLEE_SAVED * WORD_BYTES
        o_out == StackOwner(s.regs[SP])
    IN  [ s EXCEPT !.kmem = WrSeq(@, sp1, CalleeSaved(s.regs)),
                   !.procs = StoreSp(@, prev, sp1),
                   !.regs = [ @ EXCEPT ![SP] = sp1 ],
                   !.saved = (o_out :> [ regs |-> CalleeSaved(s.regs), sp |-> s.regs[SP] ]) @@ @,
                   !.sw_locks = s.locks,
                   !.yield_ops = Append(@, "switch_context") ]

\* The second half of switch_context, sp2 the word read from *next_sp:
\* sp = sp2, pop ra, s0..s11.
SwitchIn(s, sp2) ==
    LET in == RdSeq(s.kmem, sp2, CALLEE_SAVED)
        sp3 == sp2 + CALLEE_SAVED * WORD_BYTES
        o_in == StackOwner(sp3)
    IN  [ s EXCEPT !.regs = [ k \in 1 .. FRAME_WORDS |->
                                IF k = RA THEN in[1]
                                ELSE IF k >= S0 /\ k <= S11 THEN in[k - S0 + 2]
                                ELSE IF k = SP THEN sp3
                                ELSE @[k] ],
                   !.saved = [ o \in (DOMAIN @) \ {o_in} |-> @[o] ],
                   !.sw = [ owner |-> o_in,
                            restored |-> Append(in, sp3),
                            expected |-> IF o_in \in DOMAIN s.saved
                                         THEN Append(s.saved[o_in].regs, s.saved[o_in].sp)
                                         ELSE << >> ] ]

\* switch_context(&procs[prev].sp, &procs[next].sp): push ra, s0..s11,
\* *prev_sp = sp, sp = *next_sp, pop ra, s0..s11, ret.
SwitchContext(s, prev, next) == Resume(SwitchIn(SwitchOut(s, prev), s.procs[next].sp))

\* The asm! block of lines 69-76 and the store of line 79.
SwitchOps == << "sfence.vma", "csrw satp", "sfence.vma", "csrw sscratch", "CURRENT_PROC" >>

\* Mutant: the guard of line 53 lives on to the end of yield_now.
YieldSwitch_GuardOutlivesBlock(s0, next_pid, next_index, current_index) ==
    IF next_index = NoIdx THEN Panic(Touch(s0, "PROCS"), "should find next by pid")
    ELSE IF current_index = NoIdx
    THEN Panic(Touch(Touch(s0, "PROCS"), "PROCS"), "should find current by pid")
    ELSE
    LET s == Lock(Touch(Touch(s0, "PROCS"), "PROCS"), "PROCS")
    IN  IF next_index = current_index
        THEN Panic(s, "indices should be valid and distinct")
        ELSE IF s.procs[next_index].page_table = 0
        THEN Panic(s, "page_table should exist")
        ELSE SwitchContext([ Touch(s, "CURRENT_PROC") EXCEPT
                               !.satp = BitOr(SATP_SV32, s.procs[next_index].page_table),
                               !.sscratch = StackEnd(next_index),
                               !.CURRENT_PROC = next_pid,
                               !.yield_ops = SwitchOps,
                               !.regs = [ @ EXCEPT ![RA] = RA_YIELD ] ],
                           current_index, next_index)

\* Mutant: yield_now without `csrw sscratch`.
YieldSwitch_KeepsSscratch(s0, next_pid, next_index, current_index) ==
    IF next_index = NoIdx THEN Panic(Touch(s0, "PROCS"), "should find next by pid")
    ELSE IF current_index = NoIdx
    THEN Panic(Touch(Touch(s0, "PROCS"), "PROCS"), "should find current by pid")
    ELSE
    LET s == Lock(Touch(Touch(s0, "PROCS"), "PROCS"), "PROCS")
    IN  IF next_index = current_index
        THEN Panic(s, "indices should be valid and distinct")
        ELSE IF s.procs[next_index].page_table = 0
        THEN Panic(s, "page_table should exist")
        ELSE SwitchContext([ Touch(Unlock(s, "PROCS"), "CURRENT_PROC") EXCEPT
                               !.satp = BitOr(SATP_SV32, s.procs[next_index].page_table),
                               !.CURRENT_PROC = next_pid,
                               !.yield_ops = SwitchOps,
                               !.regs = [ @ EXCEPT ![RA] = RA_YIELD ] ],
                           current_index, next_index)

\* yield_now from the two lookups of line 49 on: the expects, the PROCS
\* guard of the block of lines 48-67, satp and sscratch of the next
\* process, CURRENT_PROC, switch_context.
YieldSwitch(s0, next_pid, next_index, current_index) ==
    IF next_index = NoIdx THEN Panic(Touch(s0, "PROCS"), "should find next by pid")
    ELSE IF current_index = NoIdx
    THEN Panic(Touch(Touch(s0, "PROCS"), "PROCS"), "should find current by pid")
    ELSE
    LET s == Lock(Touch(Touch(s0, "PROCS"), "PROCS"), "PROCS")
    IN  IF next_index = current_index
        THEN Panic(s, "indices should be valid and distinct")
        ELSE IF s.procs[next_index].page_table = 0
        THEN Panic(s, "page_table should exist")
        ELSE SwitchContext([ Touch(Unlock(s, "PROCS"), "CURRENT_PROC") EXCEPT
                               !.satp = BitOr(SATP_SV32, s.procs[next_index].page_table),
                               !.sscratch = StackEnd(next_index),
                               !.CURRENT_PROC = next_pid,
                               !.yield_ops = SwitchOps,
                               !.regs = [ @ EXCEPT ![RA] = RA_YIELD ] ],
                           current_index, next_index)

\* Mutant: yield_now without the early return of lines 43-46.
YieldChosen_NoEarlyReturn(s, next_pid) ==
    YieldSwitch(s, next_pid, TryGetIndex(s.procs, next_pid),
                TryGetIndex(s.procs, s.CURRENT_PROC))

\* yield_now once next_pid is found (the choice goes into the history):
\* return if it is the current pid, else look up both slots and switch.
YieldChosen(s, next_pid) ==
    IF next_pid = s.CURRENT_PROC THEN LeaveYield(s)
    ELSE YieldSwitch(s, next_pid, TryGetIndex(s.procs, next_pid),
                     TryGetIndex(s.procs, s.CURRENT_PROC))

\* yield_now once the index of the current pid is looked up: the search.
YieldSearch(s0, current_index) ==
    IF current_index = NoIdx
    THEN Panic(Touch(s0, "PROCS"), "current process PID should have an index")
    ELSE LET s == Touch(Touch(s0, "PROCS"), "PROCS")
         IN  YieldChosen([ s EXCEPT !.sched_trace =
                             Trunc(Append(@, FindNext(s.procs, current_index, s.IDLE_PROC))) ],
                         FindNext(s.procs, current_index, s.IDLE_PROC))

\* yield_now after the idle process exists.
YieldPick(s0) ==
    IF s0.panic # "" THEN s0
    ELSE LET s == Lock(s0, "CURRENT_PROC")
         IN  IF s.CURRENT_PROC = NoPid
             THEN Panic(s, "CURRENT_PROC initialised before use")
             ELSE YieldSearch(Unlock(s, "CURRENT_PROC"), TryGetIndex(s.procs, s.CURRENT_PROC))

\* yield_now, called from `site`.
YieldNow(s0, site) == YieldPick(IdleInit(EnterYield(s0, site)))

\* ------------------------------------------------------- trap vector
TagOf(tag) == (tag \div PAGE_SIZE) % 64

\* The registers of a user program at its ecall: chosen by the program,
\* here a pattern that differs by address space, system call and register.
UVal(tag, sysno, k) == 100000 * (TagOf(tag) + 1) + 100 * sysno + k

UserRegs(tag, sysno) ==
    [ k \in 1 .. FRAME_WORDS |-> IF k = A4 THEN sysno ELSE UVal(tag, sysno, k) ]

UserPc(tag, sysno) == USER_BASE + 64 * TagOf(tag) + 4 * sysno

\* Mutant: the frame's sp word gets the kernel sp instead of the user sp.
KernelEntry_SavesKernelSp(s) ==
    LET f == s.sscratch - WORD_BYTES * FRAME_WORDS
        frame == [ k \in 1 .. FRAME_WORDS |-> IF k = SP THEN f ELSE s.regs[k] ]
    IN  [ s EXCEPT !.kmem = WrSeq(@, f, frame),
                   !.sscratch = f + WORD_BYTES * FRAME_WORDS,
                   !.regs = [ @ EXCEPT ![SP] = f, ![A0] = f ] ]

\* kernel_entry up to `call handle_trap`.
KernelEntry(s) ==
    LET top == s.sscratch
        usp == s.regs[SP]
        f == top - WORD_BYTES * FRAME_WORDS
        frame == [ k \in 1 .. FRAME_WORDS |-> IF k = SP THEN usp ELSE s.regs[k] ]
    IN  [ s EXCEPT !.kmem = WrSeq(@, f, frame),
                   !.sscratch = f + WORD_BYTES * FRAME_WORDS,
                   !.regs = [ @ EXCEPT ![SP] = f, ![A0] = f ] ]

\* Mutant: a trap of another cause returns to the user program as an
\* environment call does.
HandleTrap_ReturnsOnFault(s) ==
    LET f == s.regs[A0]
        user_pc == s.sepc
        o == StackOwner(s.regs[SP])
    IN  IF s.scause = SCAUSE_ECALL
        THEN [ s EXCEPT !.kpc = "handle_syscall",
                 !.regs = [ k \in 1 .. FRAME_WORDS |->
                              IF k = SP THEN s.regs[SP]
                              ELSE IF k = S0 THEN f
                              ELSE IF k = S1 THEN user_pc
                              ELSE IF k > S1 /\ k <= S11 THEN KVal(o, k)
                              ELSE Clobbered ] ]
        ELSE [ s EXCEPT !.sepc = user_pc + 4,
                        !.regs = RdSeq(s.kmem, s.regs[SP], FRAME_WORDS),
                        !.kpc = "user" ]

\* handle_trap up to the dispatch of handle_syscall: f is kept in s0 and
\* user_pc in s1 across the calls the handler makes.
HandleTrap(s) ==
    LET f == s.regs[A0]
        user_pc == s.sepc
        o == StackOwner(s.regs[SP])
    IN  IF s.scause = SCAUSE_ECALL
        THEN [ s EXCEPT !.kpc = "handle_syscall",
                 !.regs = [ k \in 1 .. FRAME_WORDS |->
                              IF k = SP THEN s.regs[SP]
                              ELSE IF k = S0 THEN f
                              ELSE IF k = S1 THEN user_pc
                              ELSE IF k > S1 /\ k <= S11 THEN KVal(o, k)
                              ELSE Clobbered ] ]
        ELSE Panic(s, "unexpected trap")

\* Mutant: handle_trap reads sepc after handle_syscall instead of before.
TrapReturn_RereadsSepc(s) ==
    [ s EXCEPT !.sepc = s.sepc + 4,
               !.regs = RdSeq(s.kmem, s.regs[SP], FRAME_WORDS),
               !.kpc = "user" ]

\* The end of handle_trap and of kernel_entry: sepc = user_pc + 4, the 31
\* words of the frame back into the registers, sret.
TrapReturn(s) ==
    LET base == s.regs[SP]
    IN  [ s EXCEPT !.sepc = s.regs[S1] + 4,
                   !.regs = RdSeq(s.kmem, base, FRAME_WORDS),
                   !.kpc = "user" ]

FrameReg(s, k) == Rd(s.kmem, s.regs[S0] + WORD_BYTES * (k - 1))

SetFrameA0(s, v) == [ s EXCEPT !.kmem = Wr(@, s.regs[S0] + WORD_BYTES * (A0 - 1), v) ]

\* -------------------------------------------------------- file store
FILES_MAX == 2
NAME_LEN == 100
DATA_LEN == 1024
SECTOR_SIZE == 512
\* size_of::<TarHeader>() and the offsets of its fields.
HEADER_SIZE == 512
OFF_MODE == 100
OFF_SIZE == 124
OFF_CHECKSUM == 148
OFF_TYPEFLAG == 156
OFF_MAGIC == 257
OFF_VERSION == 263
\* size_of::<File>(): bool, [u8; 100], [u8; 1024], usize, aligned to 4.
FILE_SIZE_OF == 1132
NoCap == -1

\* align_up for an align that is a power of two.
AlignUp(value, align) == ((value + (align - 1)) \div align) * align

DISK_MAX_SIZE == AlignUp(FILE_SIZE_OF * FILES_MAX, SECTOR_SIZE)

FileSlots == 0 .. (FILES_MAX - 1)

\* Byte arrays are sequences; off counts from 0 as a slice index does.
Zeros(n) == [ k \in 1 .. n |-> 0 ]
Slice(a, off, n) == [ k \in 1 .. n |-> a[off + k] ]
Splice(a, off, b) ==
    [ k \in 1 .. Len(a) |-> IF k > off /\ k <= off + Len(b) THEN b[k - off] ELSE a[k] ]
Pad(b, n) == [ k \in 1 .. n |-> IF k <= Len(b) THEN b[k] ELSE 0 ]

\* File::zeroed().
ZeroedFile == [ in_use |-> FALSE, name |-> Zeros(NAME_LEN), data |-> Zeros(DATA_LEN),
                size |-> 0 ]

\* CStr::from_bytes_until_nul: the bytes before the first NUL, or an error.
NoCStr == << -1 >>
CStrUntilNul(name) ==
    LET Z == { k \in 1 .. Len(name) : name[k] = 0 }
    IN  IF Z = {} THEN NoCStr ELSE SubSeq(name, 1, Min(Z) - 1)

\* from_utf8 / to_str succeed; decided here for ASCII, the bytes of every
\* name the inputs below hold.
Utf8Ok(b) == \A k \in 1 .. Len(b) : b[k] >= 0 /\ b[k] < 128

\* Files::fs_lookup: the first slot whose NUL-truncated name is the name asked.
FsLookup(fs, name) ==
    LET hit(i) == LET c == CStrUntilNul(fs[i].name)
                  IN  c # NoCStr /\ Utf8Ok(c) /\ c = name
        M == { i \in FileSlots : hit(i) }
    IN  IF M = {} THEN NoIdx ELSE Min(M)

\* The codec before any call of int2oct.
NoCodec == [ dec |-> 0, field |-> << >>, back |-> [ ok |-> FALSE, val |-> 0 ],
             stage |-> "none" ]

\* dec * 8 + d on a 32-bit word: the low 29 bits of dec move up by three
\* (what a build without overflow checks computes).
Mul8Add(dec, d) ==
    LET x == dec % (2 ^ 29)
    IN  (IF x < 2 ^ 28 THEN x * 8 ELSE (x - 2 ^ 29) * 8) + d

\* oct2int: the fold over the bytes before the first NUL; Ok(dec) if they
\* are all octal digits, Err(()) otherwise.
RECURSIVE OctFold(_, _, _)
OctFold(oct, k, dec) ==
    IF k > Len(oct) \/ oct[k] = 0 THEN [ ok |-> TRUE, val |-> dec ]
    ELSE IF oct[k] >= 48 /\ oct[k] <= 55 THEN OctFold(oct, k + 1, Mul8Add(dec, oct[k] - 48))
    ELSE [ ok |-> FALSE, val |-> 0 ]

Oct2Int(oct) == OctFold(oct, 1, 0)

\* num / 8 on an unsigned 32-bit word.
UDiv8(num) == IF num >= 0 THEN num \div 8 ELSE (num \div 8) + 2 ^ 29

\* The digit int2oct writes j bytes before the one next to the NUL: num % 8
\* after j divisions by 8.
OctDigit(dec, j) == IF j = 0 THEN dec % 8 ELSE (UDiv8(dec) \div (8 ^ (j - 1))) % 8

\* Mutant: the bytes before the first significant digit stay spaces.
Int2Oct_SpacePadded(dec, n) ==
    [ k \in 1 .. n |->
        IF k = n THEN 0
        ELSE IF k < n - 1 /\ \A j \in (n - 1 - k) .. (n - 2) : OctDigit(dec, j) = 0 THEN 32
        ELSE 48 + OctDigit(dec, n - 1 - k) ]

\* int2oct into a field of n bytes: a NUL last, octal digits before it,
\* least significant next to the NUL, every byte of the field written.
Int2Oct(dec, n) ==
    [ k \in 1 .. n |-> IF k = n THEN 0 ELSE 48 + OctDigit(dec, n - 1 - k) ]

\* The sum of the bytes a[lo .. hi], as the fold of the checksum adds them.
RECURSIVE SumBytes(_, _, _)
SumBytes(a, lo, hi) ==
    IF lo > hi THEN 0
    ELSE IF lo = hi THEN a[lo]
    ELSE LET mid == (lo + hi) \div 2
         IN  SumBytes(a, lo, mid) + SumBytes(a, mid + 1, hi)

ModeBytes == << 48, 48, 48, 48, 48, 54, 52, 52 >>
MagicBytes == << 117, 115, 116, 97, 114, 0 >>

\* Mutant: the checksum is summed before the spaces are filled in.
TarHeaderBytes_SumBeforeFill(name, size) ==
    LET sz == Int2Oct(size, 12)
        h0 == [ k \in 1 .. HEADER_SIZE |->
                  IF k <= NAME_LEN THEN name[k]
                  ELSE IF k > OFF_MODE /\ k <= OFF_MODE + 8 THEN ModeBytes[k - OFF_MODE]
                  ELSE IF k > OFF_SIZE /\ k <= OFF_SIZE + 12 THEN sz[k - OFF_SIZE]
                  ELSE IF k = OFF_TYPEFLAG + 1 THEN 48
                  ELSE IF k > OFF_MAGIC /\ k <= OFF_MAGIC + 6 THEN MagicBytes[k - OFF_MAGIC]
                  ELSE IF k > OFF_VERSION /\ k <= OFF_VERSION + 2 THEN 48
                  ELSE 0 ]
    IN  Splice(h0, OFF_CHECKSUM, Int2Oct(SumBytes(h0, 1, HEADER_SIZE), 8))

\* The header fs_flush builds for a file: name, mode, size, typeflag, magic,
\* version, and the checksum computed over the header with spaces in it.
TarHeaderBytes(name, size) ==
    LET sz == Int2Oct(size, 12)
        h0 == [ k \in 1 .. HEADER_SIZE |->
                  IF k <= NAME_LEN THEN name[k]
                  ELSE IF k > OFF_MODE /\ k <= OFF_MODE + 8 THEN ModeBytes[k - OFF_MODE]
                  ELSE IF k > OFF_SIZE /\ k <= OFF_SIZE + 12 THEN sz[k - OFF_SIZE]
                  ELSE IF k > OFF_CHECKSUM /\ k <= OFF_CHECKSUM + 8 THEN 32
                  ELSE IF k = OFF_TYPEFLAG + 1 THEN 48
                  ELSE IF k > OFF_MAGIC /\ k <= OFF_MAGIC + 6 THEN MagicBytes[k - OFF_MAGIC]
                  ELSE IF k > OFF_VERSION /\ k <= OFF_VERSION + 2 THEN 48
                  ELSE 0 ]
    IN  Splice(h0, OFF_CHECKSUM, Int2Oct(SumBytes(h0, 1, HEADER_SIZE), 8))

\* ----------------------------------------------------- page allocator
\* Link-time layout, symbolic: the kernel image starts at __kernel_base and
\* free RAM follows it.
__kernel_base == -2145386496
__free_ram == -2143289344
__free_ram_end == __free_ram + FreeRamPages * PAGE_SIZE

\* Option::None of the cursor (no cursor is ever unaligned).
NoPAddr == 1

\* Physical page numbers are unsigned: an address / PAGE_SIZE, and back.
PageCount == 1048576
PageNo(a) == IF a >= 0 THEN a \div PAGE_SIZE ELSE (a \div PAGE_SIZE) + PageCount
PageCount4 == 4 * PageCount
PAddrOf(pn) == IF pn < PageCount \div 2 THEN pn * PAGE_SIZE ELSE (pn - PageCount) * PAGE_SIZE

RamPages == 0 .. (FreeRamPages - 1)
RamIdx(a) == PageNo(a) - PageNo(__free_ram)

\* A page of RAM: the first len bytes are the bytes of image img from
\* offset from on, zeros follow up to offset zend, the byte fill after
\* that; words holds the 32-bit words stored over them since.
FilledPage(b) == [ img |-> 0, from |-> 0, len |-> 0, zend |-> 0, fill |-> b, words |-> << >> ]
\* RAM as the machine starts.
BootPage == FilledPage(0)

\* The byte alloc fills a region with.
ALLOC_FILL == 85

\* get_or_insert_with: the cursor, __free_ram on first use.
Cursor(s) == IF s.ALLOCATOR = NoPAddr THEN __free_ram ELSE s.ALLOCATOR

\* align_up(size, PAGE_SIZE), in pages.
PagesOf(size) == (size + (PAGE_SIZE - 1)) \div PAGE_SIZE

\* The pages of RAM among count pages from page number pn on (the page
\* numbers wrap at the end of the address space).
RamRange(pn, count) ==
    { i \in RamPages :
        LET d == (PageNo(__free_ram) + i) - pn
        IN  (IF d < 0 THEN d + PageCount ELSE d) < count }

\* BumpAllocator::alloc of layout.size() = size.  The sum paddr +
\* aligned_size is a 32-bit one: a build with overflow checks panics at it,
\* a build without wraps, stores the wrapped cursor and fills from paddr on
\* until the store leaves RAM and traps.  s.ret is the pointer returned.
Alloc(s0, size, overflow_checks) ==
    LET s == Lock(s0, "ALLOCATOR")
        paddr == Cursor(s)
        pages == PagesOf(size)
        sum == PageNo(paddr) + pages
        new_pn == sum % PageCount
        filled == [ i \in RamPages |->
                      IF i \in RamRange(PageNo(paddr), pages) THEN FilledPage(ALLOC_FILL)
                      ELSE s.ram[i] ]
        init == [ s EXCEPT !.ALLOCATOR = paddr ]
    IN  IF sum >= PageCount /\ overflow_checks
        THEN Panic(init, "attempt to add with overflow")
        ELSE IF new_pn > PageNo(__free_ram_end) THEN Panic(init, "out of memory")
        ELSE IF sum >= PageCount
        THEN Panic([ s EXCEPT !.ALLOCATOR = PAddrOf(new_pn), !.ram = filled ],
                   "unexpected trap")
        ELSE Unlock([ s EXCEPT !.ALLOCATOR = PAddrOf(new_pn), !.ram = filled,
                               !.heap = Append(@, [ size |-> size, paddr |-> paddr ]),
                               !.ret = paddr ], "ALLOCATOR")

\* BumpAllocator::dealloc.
Dealloc(s, ptr, size) == s

\* ------------------------------------------------------ block device
VIRTQ_ENTRY_NUM == 16
VIRTQ_DESC_F_NEXT == 1
VIRTQ_DESC_F_WRITE == 2
VIRTIO_BLK_T_IN == 0
VIRTIO_BLK_T_OUT == 1
\* size_of VirtioVirtq and VirtioBlkReq, and the offsets of data and status
\* in the packed VirtioBlkReq.
VIRTQ_BYTES == 12288
BLK_REQ_BYTES == 529
OFF_REQ_DATA == 16
OFF_REQ_STATUS == 528

ZeroedReq == [ req_type |-> 0, sector |-> 0, data |-> Zeros(SECTOR_SIZE), status |-> 0 ]
ZeroedDesc == [ addr |-> 0, len |-> 0, flags |-> 0, next |-> 0 ]

\* What the memory held when QUEUE_NOTIFY was last written: avail.index, the
\* head the device finds in the slot it reads next, the descriptors and the
\* request buffer.
NoSeen ==
    [ avail_index |-> 0, head |-> 0,
      descs |-> << ZeroedDesc, ZeroedDesc, ZeroedDesc >>, req |-> ZeroedReq ]

\* The device holding data, and the driver's statics before
\* virtio_blk_init: BLK_CAPACITY, the request buffer of BLK_REQ and its
\* address, and of the queue of BLK_REQUEST_VQ the first three descriptors,
\* avail.ring, avail.index, last_used_index and the writes to QUEUE_NOTIFY
\* so far; the device's used index and the notifications it has handled;
\* ops names the stores of the latest accepted request in program order.
BlkAtBoot(data) ==
    [ capacity |-> NoCap, data |-> data, avail_index |-> 0, last_used_index |-> 0,
      notify |-> 0, req_paddr |-> NoPAddr, req |-> ZeroedReq,
      descs |-> << ZeroedDesc, ZeroedDesc, ZeroedDesc >>,
      ring |-> [ k \in 1 .. VIRTQ_ENTRY_NUM |-> 0 ], used_index |-> 0, handled |-> 0,
      seen |-> NoSeen, ops |-> << >> ]

\* No get_char() noted yet: the address space of the caller, what the
\* console left in a0, and the parity of the number of polls.
NoPoll == [ tag |-> 0, ch |-> 0, n |-> 0 ]

\* No call of read_write_disk yet.
NoCall == [ offset |-> 0, sector |-> NoIdx, is_write |-> FALSE, status |-> 0 ]

\* Box::new of a zeroed value of size bytes: s.ret is its address.
BoxNewZeroed(s, size) ==
    LET Zeroed(a) ==
            IF a.panic # "" THEN a
            ELSE [ a EXCEPT !.ram = [ i \in RamPages |->
                     IF i \in RamRange(PageNo(a.ret), PagesOf(size))
                     THEN LET left == size - (i - RamIdx(a.ret)) * PAGE_SIZE
                          IN  [ FilledPage(ALLOC_FILL) EXCEPT
                                  !.zend = IF left < PAGE_SIZE THEN left ELSE PAGE_SIZE ]
                     ELSE a.ram[i] ] ]
    IN  Zeroed(Alloc(s, size, TRUE))

\* virtio_blk_init: the queue and the request buffer are boxed and
\* BLK_CAPACITY holds the capacity the device reports.
VirtioBlkInit(s0) ==
    LET q == Touch(BoxNewZeroed(s0, VIRTQ_BYTES), "BLK_REQUEST_VQ")
        c == Touch(Touch(q, "BLK_CAPACITY"), "BLK_CAPACITY")
        c1 == [ c EXCEPT !.blk = [ @ EXCEPT !.capacity = Len(c.blk.data) ], !.console = 10 ]
        r == Touch(BoxNewZeroed(c1, BLK_REQ_BYTES), "BLK_REQ")
    IN  IF q.panic # "" THEN q
        ELSE IF r.panic # "" THEN r
        ELSE [ r EXCEPT !.blk = [ @ EXCEPT !.req_paddr = r.ret ] ]

\* The three descriptors of a request whose buffer lies at paddr.
RequestDescs(paddr, is_write) ==
    << [ addr |-> paddr, len |-> 16, flags |-> VIRTQ_DESC_F_NEXT, next |-> 1 ],
       [ addr |-> paddr + OFF_REQ_DATA, len |-> SECTOR_SIZE,
         flags |-> VIRTQ_DESC_F_NEXT + (IF is_write THEN 0 ELSE VIRTQ_DESC_F_WRITE),
         next |-> 2 ],
       [ addr |-> paddr + OFF_REQ_STATUS, len |-> 1, flags |-> VIRTQ_DESC_F_WRITE,
         next |-> 0 ] >>

\* read_write_disk writes the request to the buffer of BLK_REQ.
FillRequest(b, sector, is_write, buf) ==
    [ b EXCEPT !.req = [ @ EXCEPT
                           !.sector = sector,
                           !.req_type = IF is_write THEN VIRTIO_BLK_T_OUT
                                        ELSE VIRTIO_BLK_T_IN,
                           !.data = IF is_write THEN buf ELSE @ ],
               !.ops = << "br.sector", "br.req_type" >>
                       \o (IF is_write THEN << "br.data" >> ELSE << >>) ]

\* read_write_disk sets descriptors 0, 1 and 2.
SetDescs(b, is_write) ==
    [ b EXCEPT !.descs = RequestDescs(b.req_paddr, is_write),
               !.ops = @ \o << "descs[0]", "descs[1]", "descs[2]" >> ]

\* The statements of virtq_kick.
AvailRing(b, desc_index) ==
    [ b EXCEPT !.ring = [ @ EXCEPT ![(b.avail_index % VIRTQ_ENTRY_NUM) + 1] = desc_index ],
               !.ops = Append(@, "avail.ring") ]

\* Mutant: avail.index is incremented by two.
AvailIndex_ByTwo(b) ==
    [ b EXCEPT !.avail_index = (@ + 2) % 65536, !.ops = Append(@, "avail.index") ]

AvailIndex(b) ==
    [ b EXCEPT !.avail_index = (@ + 1) % 65536, !.ops = Append(@, "avail.index") ]

Fence(b) == [ b EXCEPT !.ops = Append(@, "fence") ]

QueueNotify(b) ==
    [ b EXCEPT !.notify = @ + 1,
               !.seen = [ avail_index |-> b.avail_index,
                          head |-> b.ring[(b.used_index % VIRTQ_ENTRY_NUM) + 1],
                          descs |-> b.descs, req |-> b.req ],
               !.ops = Append(@, "QUEUE_NOTIFY") ]

LastUsed(b) ==
    [ b EXCEPT !.last_used_index = (@ + 1) % 65536, !.ops = Append(@, "last_used_index") ]

\* Mutant: the device is notified before the ring is written.
VirtqKick_NotifyFirst(b, desc_index) ==
    LastUsed(Fence(AvailIndex(AvailRing(QueueNotify(b), desc_index))))

VirtqKick(b, desc_index) ==
    LastUsed(QueueNotify(Fence(AvailIndex(AvailRing(b, desc_index)))))

\* Mutant: the queue is never found busy.
VirtqIsBusy_Never(b) == FALSE

VirtqIsBusy(b) == b.last_used_index # b.used_index

\* The device handles a notification: when what it saw holds a new entry
\* of the ring whose chain describes a request in the buffer, it answers
\* with the status byte, moves the sector when that is 0, and counts the
\* request as used.
DeviceServe(b, status) ==
    LET h == [ b EXCEPT !.handled = b.notify ]
        r == b.seen.req
        used == [ h EXCEPT !.used_index = (@ + 1) % 65536 ]
    IN  IF b.handled = b.notify THEN b
        ELSE IF b.seen.avail_index = b.used_index THEN h
        ELSE IF b.seen.head # 0
                \/ b.seen.descs # RequestDescs(b.req_paddr, r.req_type = VIRTIO_BLK_T_OUT)
        THEN h
        ELSE IF status # 0 THEN [ used EXCEPT !.req = [ @ EXCEPT !.status = status ] ]
        ELSE IF r.req_type = VIRTIO_BLK_T_OUT
        THEN [ used EXCEPT !.data = Splice(@, r.sector * SECTOR_SIZE, r.data),
                           !.req = [ @ EXCEPT !.status = 0 ] ]
        ELSE [ used EXCEPT !.req = [ @ EXCEPT
                             !.data = Slice(b.data, r.sector * SECTOR_SIZE, SECTOR_SIZE),
                             !.status = 0 ] ]

\* read_write_disk from the lock of BLK_REQ to the return of virtq_kick:
\* the request is written to the buffer, the descriptors are set and the
\* device is notified.
KickRequest(s, offset, sector, is_write) ==
    LET g == Lock(Lock(s, "BLK_REQ"), "BLK_REQUEST_VQ")
        buf == Slice(s.disk, offset, SECTOR_SIZE)
    IN  [ g EXCEPT !.blk = VirtqKick(SetDescs(FillRequest(s.blk, sector, is_write, buf),
                                              is_write), 0) ]

\* read_write_disk once the queue is not busy: the status is looked at, a
\* read copies the sector to the caller, and the guards are dropped.
RequestDone(s, offset, is_write) ==
    LET done == Unlock(Unlock(s, "BLK_REQUEST_VQ"), "BLK_REQ")
    IN  IF s.blk.req.status # 0 THEN [ done EXCEPT !.console = 10 ]
        ELSE IF is_write THEN done
        ELSE [ done EXCEPT !.disk = Splice(@, offset, s.blk.req.data) ]

\* read_write_disk from the lock of BLK_REQ on, with a device that handles
\* the notification at once; while the queue stays busy the hart spins.
ServeAndReturn(k, offset, is_write, status) ==
    LET d == [ k EXCEPT !.blk = DeviceServe(@, status) ]
    IN  IF VirtqIsBusy(d.blk)
        THEN [ d EXCEPT !.stuck = TRUE, !.snap = [ d EXCEPT !.kpc = "spin", !.console = 46 ] ]
        ELSE RequestDone(d, offset, is_write)

SubmitRequest(s, offset, sector, is_write, status) ==
    ServeAndReturn(KickRequest(s, offset, sector, is_write), offset, is_write, status)

\* Mutant: the sector is compared with the capacity after the request was
\* written to the buffer.
ReadWriteDisk_LateRangeCheck(s0, offset, sector, is_write, status) ==
    IF s0.panic # "" THEN s0
    ELSE
    LET called == [ s0 EXCEPT !.rw = [ offset |-> offset, sector |-> sector,
                                       is_write |-> is_write, status |-> status ] ]
        c == Lock(called, "BLK_CAPACITY")
    IN  IF c.blk.capacity = NoCap
        THEN Panic(c, "block capacity should be initialised before read_write_disk call.")
        ELSE
        LET s == Unlock(c, "BLK_CAPACITY")
        IN  IF sector >= s.blk.capacity \div SECTOR_SIZE
            THEN [ s EXCEPT !.blk = [ @ EXCEPT !.req = [ @ EXCEPT !.sector = sector ] ],
                            !.console = 10 ]
            ELSE SubmitRequest(s, offset, sector, is_write, status)

\* read_write_disk(&mut disk[offset .. offset + SECTOR_SIZE], sector, is_write)
\* to the return of virtq_kick, or to its return when the request is not
\* accepted; status is the status byte the device answers with.
RwdCall(s0, offset, sector, is_write, status) ==
    IF s0.panic # "" THEN s0
    ELSE
    LET called == [ s0 EXCEPT !.rw = [ offset |-> offset, sector |-> sector,
                                       is_write |-> is_write, status |-> status ] ]
        c == Lock(called, "BLK_CAPACITY")
    IN  IF c.blk.capacity = NoCap
        THEN Panic(c, "block capacity should be initialised before read_write_disk call.")
        ELSE
        LET s == Unlock(c, "BLK_CAPACITY")
        IN  IF sector >= s.blk.capacity \div SECTOR_SIZE THEN [ s EXCEPT !.console = 10 ]
            ELSE KickRequest(s, offset, sector, is_write)

\* read_write_disk is in its loop on virtq_is_busy.
InBusyLoop(s) == s.panic = "" /\ ~s.stuck /\ "BLK_REQUEST_VQ" \in s.locks

\* The whole of read_write_disk, with a device that handles the
\* notification at once.
ReadWriteDisk(s0, offset, sector, is_write, status) ==
    LET k == RwdCall(s0, offset, sector, is_write, status)
    IN  IF InBusyLoop(k) /\ s0.panic = "" THEN ServeAndReturn(k, offset, is_write, status)
        ELSE k

\* The sector loops of fs_init and fs_flush; bad holds the sectors whose
\* request the device fails.
RECURSIVE DiskSectors(_, _, _, _)
DiskSectors(s, sector, is_write, bad) ==
    IF sector >= DISK_MAX_SIZE \div SECTOR_SIZE THEN s
    ELSE DiskSectors(ReadWriteDisk(s, sector * SECTOR_SIZE, sector, is_write,
                                   IF sector \in bad THEN 1 ELSE 0),
                     sector + 1, is_write, bad)

\* Mutant: the loop does not stop at a name that starts with NUL.
RECURSIVE LoadFiles_NoStop(_, _, _)
LoadFiles_NoStop(s, i, off) ==
    IF s.panic # "" \/ i >= FILES_MAX THEN s
    ELSE IF Len(s.disk) < off + HEADER_SIZE
    THEN Panic(s, "assertion failed: disk.len() >= off + size_of::<TarHeader>()")
    ELSE
    LET header == Slice(s.disk, off, HEADER_SIZE)
        name == Slice(header, 0, NAME_LEN)
        size == Oct2Int(Slice(header, OFF_SIZE, 12))
        filesz == size.val
        data_offset == off + HEADER_SIZE
        marked == [ s EXCEPT !.files = [ @ EXCEPT ![i] =
                      [ @ EXCEPT !.in_use = TRUE, !.name = name, !.size = filesz ] ] ]
        loaded == [ marked EXCEPT !.files = [ @ EXCEPT ![i] =
                      [ @ EXCEPT !.data = Splice(@, 0, Slice(s.disk, data_offset, filesz)) ] ] ]
    IN  IF Slice(header, OFF_MAGIC, 6) # MagicBytes THEN Panic(s, "invalid tar header")
        ELSE IF ~size.ok THEN Panic(s, "file size should be valid")
        ELSE IF filesz < 0 \/ filesz > DATA_LEN \/ data_offset + filesz > Len(s.disk)
        THEN Panic(marked, "range end index out of range")
        ELSE IF ~Utf8Ok(name) THEN Panic(loaded, "file name text should be valid UTF8")
        ELSE LoadFiles_NoStop([ loaded EXCEPT !.console = 10 ],
                       i + 1, off + AlignUp(HEADER_SIZE + filesz, SECTOR_SIZE))

\* The file loop of fs_init from slot i and disk offset off.
RECURSIVE LoadFiles(_, _, _)
LoadFiles(s, i, off) ==
    IF s.panic # "" \/ i >= FILES_MAX THEN s
    ELSE IF Len(s.disk) < off + HEADER_SIZE
    THEN Panic(s, "assertion failed: disk.len() >= off + size_of::<TarHeader>()")
    ELSE
    LET header == Slice(s.disk, off, HEADER_SIZE)
        name == Slice(header, 0, NAME_LEN)
        size == Oct2Int(Slice(header, OFF_SIZE, 12))
        filesz == size.val
        data_offset == off + HEADER_SIZE
        marked == [ s EXCEPT !.files = [ @ EXCEPT ![i] =
                      [ @ EXCEPT !.in_use = TRUE, !.name = name, !.size = filesz ] ] ]
        loaded == [ marked EXCEPT !.files = [ @ EXCEPT ![i] =
                      [ @ EXCEPT !.data = Splice(@, 0, Slice(s.disk, data_offset, filesz)) ] ] ]
    IN  IF header[1] = 0 THEN s
        ELSE IF Slice(header, OFF_MAGIC, 6) # MagicBytes THEN Panic(s, "invalid tar header")
        ELSE IF ~size.ok THEN Panic(s, "file size should be valid")
        ELSE IF filesz < 0 \/ filesz > DATA_LEN \/ data_offset + filesz > Len(s.disk)
        THEN Panic(marked, "range end index out of range")
        ELSE IF ~Utf8Ok(name) THEN Panic(loaded, "file name text should be valid UTF8")
        ELSE LoadFiles([ loaded EXCEPT !.console = 10 ],
                       i + 1, off + AlignUp(HEADER_SIZE + filesz, SECTOR_SIZE))

\* fs_init: the disk buffer read sector by sector, then the files loaded.
FsInitBegin(s) == Lock(s, "DISK")

FsInitEnd(s) ==
    LET d == Unlock(s, "DISK")
        f == LoadFiles(Lock(Lock(d, "FILES"), "DISK"), 0, 0)
    IN  Unlock(Unlock(f, "DISK"), "FILES")

FsInit(s, bad) == FsInitEnd(DiskSectors(FsInitBegin(s), 0, FALSE, bad))

\* The file loop of fs_flush from slot i and disk offset off.
RECURSIVE StoreFiles(_, _, _)
StoreFiles(s, i, off) ==
    IF s.panic # "" \/ i >= FILES_MAX THEN s
    ELSE IF ~s.files[i].in_use THEN s
    ELSE IF off + HEADER_SIZE > Len(s.disk) THEN Panic(s, "range end index out of range")
    ELSE
    LET file == s.files[i]
        d1 == Splice(s.disk, off, TarHeaderBytes(file.name, file.size))
        data_offset == off + HEADER_SIZE
    IN  IF data_offset + DATA_LEN > Len(s.disk)
        THEN Panic([ s EXCEPT !.disk = d1 ], "range end index out of range")
        ELSE StoreFiles([ s EXCEPT !.disk = Splice(d1, data_offset, file.data) ],
                        i + 1, off + AlignUp(HEADER_SIZE + file.size, SECTOR_SIZE))

\* fs_flush: the disk buffer zeroed, the in_use files stored, the buffer
\* written sector by sector.
FsFlushBegin(s) ==
    LET d == Lock(s, "DISK")
    IN  StoreFiles(Lock([ d EXCEPT !.disk = Zeros(DISK_MAX_SIZE) ], "FILES"), 0, 0)

FsFlushEnd(s2) ==
    IF s2.panic # "" THEN s2
    ELSE Unlock(Unlock([ s2 EXCEPT !.console = 10 ], "FILES"), "DISK")

FsFlush(s, bad) == FsFlushEnd(DiskSectors(FsFlushBegin(s), 0, TRUE, bad))

\* A tar archive as the device holds it at boot: per entry a header, then
\* the content, padded to the sector.
RECURSIVE Archive(_, _, _, _)
Archive(entries, k, off, img) ==
    IF k > Len(entries) THEN img
    ELSE LET e == entries[k]
             h == TarHeaderBytes(Pad(e.name, NAME_LEN), Len(e.content))
         IN  Archive(entries, k + 1, off + AlignUp(HEADER_SIZE + Len(e.content), SECTOR_SIZE),
                     Splice(Splice(img, off, h), off + HEADER_SIZE, e.content))

HelloTxt == << 104, 101, 108, 108, 111, 46, 116, 120, 116 >>
MeowTxt == << 109, 101, 111, 119, 46, 116, 120, 116 >>
NopeName == << 110, 111, 112, 101 >>

Archives ==
    { << >>,
      << [ name |-> HelloTxt, content |-> << 72, 101, 108, 108, 111 >> ] >>,
      << [ name |-> HelloTxt, content |-> << 72, 101, 108, 108, 111 >> ],
         [ name |-> MeowTxt, content |-> << 109, 101, 119 >> ] >> }

DeviceImages == { Archive(es, 1, 0, Zeros(DISK_MAX_SIZE)) : es \in Archives }

\* -------------------------------------------------------- page tables
ENTRIES_PER_TABLE == 1024
PAGE_V == 1
PAGE_R == 2
PAGE_W == 4
PAGE_X == 8
PAGE_U == 16

\* The byte at offset k of image img.
ImageByte(img, k) == 1 + ((17 * img + 7 * k) % 100)

\* The byte at offset k of a page, the words stored over it aside.
UnderByte(p, k) ==
    IF k < p.len THEN ImageByte(p.img, p.from + k)
    ELSE IF k < p.zend THEN 0
    ELSE p.fill

\* The 32-bit word at index w of a page (little-endian).
WordAt(p, w) ==
    IF w \in DOMAIN p.words THEN p.words[w]
    ELSE UnderByte(p, 4 * w) + 256 * UnderByte(p, 4 * w + 1)
         + 65536 * UnderByte(p, 4 * w + 2) + 16777216 * UnderByte(p, 4 * w + 3)

\* table[idx] = v for the table at paddr.
StoreEntry(s, paddr, idx, v) ==
    [ s EXCEPT !.ram[RamIdx(paddr)].words = (idx :> v) @@ @ ]

\* A page holding [0; ENTRIES_PER_TABLE].
ZeroedTable == [ FilledPage(ALLOC_FILL) EXCEPT !.zend = PAGE_SIZE ]

\* Box::new(PageTable::new()): a region of the allocator, the all-zero
\* table moved into it.  s.ret is the address of the table.
BoxNewPageTable(s) ==
    LET Moved(a) == IF a.panic # "" THEN a
                    ELSE [ a EXCEPT !.ram[RamIdx(a.ret)] = ZeroedTable ]
    IN  Moved(Alloc(s, ENTRIES_PER_TABLE * WORD_BYTES, TRUE))

\* Mutant: the leaf entry is stored without PAGE_V.
MapPage_LeafNotValid(s, table1, vaddr, paddr, flags) ==
    IF s.panic # "" THEN s
    ELSE IF vaddr % PAGE_SIZE # 0 THEN Panic(s, "unaligned vaddr")
    ELSE IF paddr % PAGE_SIZE # 0 THEN Panic(s, "unaligned paddr")
    ELSE
    LET vpn1 == (PageNo(vaddr) \div ENTRIES_PER_TABLE) % ENTRIES_PER_TABLE
        vpn0 == PageNo(vaddr) % ENTRIES_PER_TABLE
        Leaf(s1) ==
            StoreEntry(s1, PAddrOf(WordAt(s1.ram[RamIdx(table1)], vpn1) \div 1024), vpn0,
                       BitOrNat(PageNo(paddr) * 1024, flags))
        Fresh(b) ==
            IF b.panic # "" THEN b
            ELSE Leaf(StoreEntry(b, table1, vpn1, PageNo(b.ret) * 1024 + PAGE_V))
    IN  IF WordAt(s.ram[RamIdx(table1)], vpn1) % 2 = 0 THEN Fresh(BoxNewPageTable(s))
        ELSE Leaf(s)

\* map_page, on the table at table1.  A state that has panicked stays.
MapPage(s, table1, vaddr, paddr, flags) ==
    IF s.panic # "" THEN s
    ELSE IF vaddr % PAGE_SIZE # 0 THEN Panic(s, "unaligned vaddr")
    ELSE IF paddr % PAGE_SIZE # 0 THEN Panic(s, "unaligned paddr")
    ELSE
    LET vpn1 == (PageNo(vaddr) \div ENTRIES_PER_TABLE) % ENTRIES_PER_TABLE
        vpn0 == PageNo(vaddr) % ENTRIES_PER_TABLE
        Leaf(s1) ==
            StoreEntry(s1, PAddrOf(WordAt(s1.ram[RamIdx(table1)], vpn1) \div 1024), vpn0,
                       BitOrNat(PageNo(paddr) * 1024, flags + PAGE_V))
        Fresh(b) ==
            IF b.panic # "" THEN b
            ELSE Leaf(StoreEntry(b, table1, vpn1, PageNo(b.ret) * 1024 + PAGE_V))
    IN  IF WordAt(s.ram[RamIdx(table1)], vpn1) % 2 = 0 THEN Fresh(BoxNewPageTable(s))
        ELSE Leaf(s)

\* for paddr in (kernel_base..free_ram_end).step_by(PAGE_SIZE), on the page
\* numbers lo .. hi - 1, in order.
RECURSIVE MapKernel(_, _, _, _)
MapKernel(s, table1, lo, hi) ==
    IF lo >= hi \/ s.panic # "" THEN s
    ELSE IF hi = lo + 1
    THEN MapPage(s, table1, PAddrOf(lo), PAddrOf(lo), PAGE_R + PAGE_W + PAGE_X)
    ELSE LET mid == (lo + hi) \div 2
         IN  MapKernel(MapKernel(s, table1, lo, mid), table1, mid, hi)

\* ---------------------------------------------------- the image copy
Max(a, b) == IF a >= b THEN a ELSE b

\* The first n bytes of a page copied over a page of a fresh region.
CopiedPage(p, n) ==
    IF n >= PAGE_SIZE THEN p
    ELSE IF n <= 0 THEN FilledPage(ALLOC_FILL)
    ELSE LET len == IF p.len < n THEN p.len ELSE n
         IN  [ p EXCEPT !.len = len, !.zend = Max(len, IF p.zend < n THEN p.zend ELSE n),
                        !.fill = ALLOC_FILL ]

\* GlobalAlloc::realloc, the default one: alloc, copy the smaller of the
\* two sizes, dealloc.  s.ret is the new pointer.
Realloc(s, ptr, old_size, new_size) ==
    LET n == IF old_size < new_size THEN old_size ELSE new_size
        Copied(a) ==
            IF a.panic # "" THEN a
            ELSE [ Dealloc([ a EXCEPT !.ram =
                               [ i \in RamPages |->
                                   IF i \in RamRange(PageNo(a.ret), PagesOf(new_size))
                                   THEN CopiedPage(a.ram[RamIdx(ptr) + (i - RamIdx(a.ret))],
                                                   n - (i - RamIdx(a.ret)) * PAGE_SIZE)
                                   ELSE a.ram[i] ] ],
                           ptr, old_size) EXCEPT !.ret = a.ret ]
    IN  Copied(Alloc(s, new_size, TRUE))

\* A Vec<u8>: its pointer, capacity and length.
EmptyVec == [ ptr |-> 1, cap |-> 0, len |-> 0 ]

\* image_slice.to_vec(): s.ret is the Vec.
ToVec(s, image) ==
    LET Page(k) ==
            [ FilledPage(ALLOC_FILL) EXCEPT
                !.img = image.img, !.from = k * PAGE_SIZE,
                !.len = IF image.size - k * PAGE_SIZE < PAGE_SIZE
                        THEN image.size - k * PAGE_SIZE ELSE PAGE_SIZE,
                !.zend = IF image.size - k * PAGE_SIZE < PAGE_SIZE
                         THEN image.size - k * PAGE_SIZE ELSE PAGE_SIZE ]
        Copied(a) ==
            IF a.panic # "" THEN a
            ELSE [ a EXCEPT
                     !.ram = [ i \in RamPages |->
                                 IF i \in RamRange(PageNo(a.ret), PagesOf(image.size))
                                 THEN Page(i - RamIdx(a.ret))
                                 ELSE a.ram[i] ],
                     !.ret = [ ptr |-> a.ret, cap |-> image.size, len |-> image.size ] ]
    IN  IF image.size = 0 THEN [ s EXCEPT !.ret = EmptyVec ]
        ELSE Copied(Alloc(s, image.size, TRUE))

\* image_vec.resize(new_len, 0) for new_len >= len: the buffer grows to
\* max(2 * cap, new_len, 8) when new_len exceeds the capacity, zeros fill
\* the bytes from len to new_len.  s.ret is the Vec.
Resize(s, vec, new_len) ==
    LET cap == IF new_len > vec.cap THEN Max(Max(2 * vec.cap, new_len), 8) ELSE vec.cap
        ZEnd(k) == IF new_len - k * PAGE_SIZE < PAGE_SIZE THEN new_len - k * PAGE_SIZE
                   ELSE PAGE_SIZE
        Zeroed(g) ==
            IF g.panic # "" THEN g
            ELSE [ g EXCEPT
                     !.ram = [ i \in RamPages |->
                                 IF i \in RamRange(PageNo(g.ret), PagesOf(new_len))
                                 THEN [ g.ram[i] EXCEPT
                                          !.zend = Max(@, ZEnd(i - RamIdx(g.ret))) ]
                                 ELSE g.ram[i] ],
                     !.ret = [ ptr |-> g.ret, cap |-> cap, len |-> new_len ] ]
    IN  IF new_len <= vec.len THEN [ s EXCEPT !.ret = vec ]
        ELSE IF new_len <= vec.cap THEN Zeroed([ s EXCEPT !.ret = vec.ptr ])
        ELSE IF vec.cap = 0 THEN Zeroed(Alloc(s, cap, TRUE))
        ELSE Zeroed(Realloc(s, vec.ptr, vec.cap, cap))

\* image_vec.into_boxed_slice(): the buffer shrinks to len when the
\* capacity exceeds it.  s.ret is the address of the slice.
IntoBoxedSlice(s, vec) ==
    IF vec.len < vec.cap THEN Realloc(s, vec.ptr, vec.cap, vec.len)
    ELSE [ s EXCEPT !.ret = vec.ptr ]

\* for (i, page_chunk) in image_data.chunks_mut(PAGE_SIZE).enumerate(), on
\* the chunks i .. n - 1.
RECURSIVE MapUser(_, _, _, _, _)
MapUser(s, table1, data, i, n) ==
    IF i >= n \/ s.panic # "" THEN s
    ELSE MapUser(MapPage(s, table1, USER_BASE + i * PAGE_SIZE, data + i * PAGE_SIZE,
                         PAGE_U + PAGE_R + PAGE_W + PAGE_X),
                 table1, data, i + 1, n)

\* create_process(image, image_size): the PCB as CreateProcess fills it,
\* the page table with the kernel pages and the pages of the leaked image
\* copy, PROCS locked to the end.  A panic on the way leaves the PCB
\* Unused.  s.ret is the pid.
CreateProcessImage(s, image) ==
    LET aligned_size == AlignUp(image.size, PAGE_SIZE)
        Done(i, page_table, image_data, u) ==
            IF u.panic # ""
            THEN [ u EXCEPT !.procs = s.procs, !.sched_trace = s.sched_trace ]
            ELSE Unlock([ u EXCEPT !.procs[i].page_table = page_table,
                                   !.images = (i :> [ img |-> image.img, size |-> image.size,
                                                      data |-> image_data ]) @@ @,
                                   !.ret = i + 1 ], "PROCS")
        Mapped(i, page_table, b) ==
            Done(i, page_table, b.ret,
                 MapUser(b, page_table, b.ret, 0, aligned_size \div PAGE_SIZE))
        Boxed(i, page_table, r) ==
            Mapped(i, page_table, IF r.panic # "" THEN r ELSE IntoBoxedSlice(r, r.ret))
        Resized(i, page_table, v) ==
            Boxed(i, page_table, IF v.panic # "" THEN v ELSE Resize(v, v.ret, aligned_size))
        Copied(i, page_table, k) ==
            Resized(i, page_table, IF k.panic # "" THEN k ELSE ToVec(k, image))
        Kernel(i, t) ==
            Copied(i, t.ret,
                   MapKernel(t, t.ret, PageNo(__kernel_base), PageNo(__free_ram_end)))
        Table(c) ==
            IF c.panic # "" THEN c
            ELSE Kernel(c.ret - 1, BoxNewPageTable(Lock(c, "PROCS")))
    IN  Table(CreateProcess(s))

\* ------------------------------------------------------------ actions
InitWith(image) ==
    /\ procs = [ i \in Slots |-> EmptyProcess ]
    /\ IDLE_PROC = NoPid
    /\ CURRENT_PROC = NoPid
    /\ kmem = << >>
    /\ regs = [ k \in 1 .. FRAME_WORDS |->
                  IF k = SP THEN STACK_TOP
                  ELSE IF k >= S0 /\ k <= S11 THEN KVal(BootStack, k)
                  ELSE Clobbered ]
    /\ sscratch = 0
    /\ sepc = 0
    /\ scause = 0
    /\ sstatus = 0
    /\ satp = 0
    /\ kpc = "kernel_main"
    /\ panic = ""
    /\ console = -1
    /\ sched_trace = << >>
    /\ saved = << >>
    /\ sw = [ owner |-> NoIdx, restored |-> << >>, expected |-> << >> ]
    /\ ecall = << >>
    /\ files = [ i \in FileSlots |-> ZeroedFile ]
    /\ disk = Zeros(DISK_MAX_SIZE)
    /\ blk = BlkAtBoot(image)
    /\ umem = << >>
    /\ codec = NoCodec
    /\ ALLOCATOR = NoPAddr
    /\ ram = [ i \in RamPages |-> BootPage ]
    /\ heap = << >>
    /\ images = << >>
    /\ locks = {}
    /\ sw_locks = {}
    /\ rw = NoCall
    /\ poll = NoPoll
    /\ yield_ops = << >>

\* The state kernel_main starts in, the drive blank.
Init == InitWith(Zeros(DISK_MAX_SIZE))

\* The state kernel_main starts in, the drive holding some archive.
InitFs == \E image \in DeviceImages : InitWith(image)

UserPcbs(ps) == { i \in Slots : ps[i].state # "Unused" /\ ps[i].pid # IDLE_PID }

\* kernel_main: PROC_A.lock().get_or_insert_with(|| create_process(..)),
\* and the same with PROC_B.
KernelCreateProcess ==
    /\ kpc = "kernel_main"
    /\ Cardinality(UserPcbs(procs)) < MaxCreate
    /\ LET l == IF UserPcbs(procs) = {} THEN "PROC_A" ELSE "PROC_B"
       IN  Commit(Unlock(CreateProcess(Lock(St, l)), l))

\* kernel_main: yield_now().
KernelYield ==
    /\ kpc = "kernel_main"
    /\ Commit(YieldNow(St, RA_KMAIN))

\* kernel_main: the panic! that follows its yield_now.
KernelMainPanic ==
    /\ kpc = "kernel_main"
    /\ IDLE_PROC # NoPid
    /\ Commit(Panic(St, "switched to idle process"))

\* user_entry, as create_process wires it: sepc, sstatus, sret.
UserEntry ==
    /\ kpc = "user_entry"
    /\ Commit([ St EXCEPT !.sepc = USER_BASE, !.sstatus = SSTATUS_SPIE,
                          !.kpc = "user" ])

\* A user program executes ecall with a4 = sysno.
Ecall(sysno) ==
    /\ kpc = "user"
    /\ LET ur == UserRegs(satp, sysno)
           pc == UserPc(satp, sysno)
           s0 == [ St EXCEPT !.regs = ur, !.sepc = pc, !.scause = SCAUSE_ECALL,
                     !.ecall = (satp :> [ regs |-> ur, pc |-> pc, ret |-> NoPid ]) @@ @ ]
       IN  Commit(HandleTrap(KernelEntry(s0)))

\* A user program traps for another cause: an illegal instruction, a
\* breakpoint, a page fault of a fetch, a load or a store.
FaultCauses == { 2, 3, 12, 13, 15 }

UserFault ==
    /\ kpc = "user"
    /\ \E cause \in FaultCauses :
         LET s0 == [ St EXCEPT !.regs = UserRegs(satp, 0), !.sepc = UserPc(satp, 0),
                               !.scause = cause ]
         IN  Commit(HandleTrap(KernelEntry(s0)))

Dispatch(sysno) == kpc = "handle_syscall" /\ FrameReg(St, A4) = sysno

NoteRet(s, v) ==
    [ s EXCEPT !.ecall = IF s.satp \in DOMAIN @
                         THEN [ @ EXCEPT ![s.satp].ret = v ] ELSE @ ]

\* SYS_PUTBYTE: put_byte(f.a0 as u8); r is what the SBI call leaves in a0.
SysPutByte ==
    /\ Dispatch(SYS_PUTBYTE)
    /\ \E r \in {0, -2} :
         LET b == FrameReg(St, A0) % 256
             v == IF r = 0 THEN 0 ELSE r
             s1 == [ SetFrameA0(St, v) EXCEPT !.console = b ]
         IN  Commit(TrapReturn(NoteRet(s1, v)))

\* What the SBI console leaves in a0 at a getchar: -1 when it has no
\* character, else the character (NUL and 'h' here).
SbiChars == { -1, 0, 104 }

\* Mutant: a failed poll ends the system call with the -1 of the console.
GetCharPoll_ReturnsOnFail(s, ch) == TrapReturn(NoteRet(SetFrameA0(s, ch), ch))

\* One turn of the loop of SYS_GETCHAR: get_char() is Ok(ch) unless the
\* console left -1; Ok ends the call with f.a0 = ch, Err goes to yield_now.
GetCharPoll(s, ch) ==
    IF ch # -1 THEN TrapReturn(NoteRet(SetFrameA0(s, ch), ch))
    ELSE YieldNow(s, RA_GETCHAR)

\* The hart is in the loop of SYS_GETCHAR, about to call get_char().
GetCharPending == Dispatch(SYS_GETCHAR) \/ kpc = "getchar_loop"

\* SYS_GETCHAR: one turn of the loop; ch is what the SBI call leaves in a0.
SysGetChar ==
    /\ GetCharPending
    /\ \E ch \in SbiChars : Commit(GetCharPoll(St, ch))

\* SYS_EXIT: the current PCB becomes Exited, then yield_now, then unreachable!.
SysExit ==
    /\ Dispatch(SYS_EXIT)
    /\ IF CURRENT_PROC = NoPid
       THEN Commit(Panic(Lock(St, "CURRENT_PROC"), "current process should be running"))
       ELSE LET j == TryGetIndex(procs, CURRENT_PROC)
                ps == IF j = NoIdx THEN procs ELSE [ procs EXCEPT ![j].state = "Exited" ]
                s0 == Lock(Touch(St, "CURRENT_PROC"), "PROCS")
                s1 == Unlock([ s0 EXCEPT !.procs = ps, !.console = 10, !.sched_trace = << >> ],
                             "PROCS")
            IN  Commit(YieldNow(s1, RA_EXIT))

\* Any other system call number: panic!.
SysUnknown ==
    /\ kpc = "handle_syscall"
    /\ FrameReg(St, A4) \notin SYS_PUTBYTE .. SYS_WRITEFILE
    /\ Commit(Panic(St, "unexpected syscall"))

Next ==
    \/ KernelCreateProcess
    \/ KernelYield
    \/ KernelMainPanic
    \/ UserEntry
    \/ \E sysno \in {0, SYS_PUTBYTE, SYS_GETCHAR, SYS_EXIT, 6} : Ecall(sysno)
    \/ UserFault
    \/ SysPutByte
    \/ SysGetChar
    \/ SysExit
    \/ SysUnknown

Spec == Init /\ [][Next]_vars

\* -------------------------------------------------- file system calls
\* sstatus.SUM: supervisor code may touch pages mapped with PAGE_U.
UserAccessOk(s) == (s.sstatus \div SSTATUS_SUM) % 2 = 1

\* A load or store of the kernel faults: the hart enters kernel_entry from
\* supervisor mode and handle_trap panics on the cause.
KernelFault(s, cause) ==
    HandleTrap(KernelEntry([ s EXCEPT !.scause = cause, !.sepc = KERNEL_FAULT_PC ]))

\* buf.copy_from_slice(&files[file_i].data[..buf.len()]).
ReadFileCopy(buf, file) == SubSeq(file.data, 1, Len(buf))

\* Mutant: the guard of FILES is not dropped before fs_flush.
SysFileBegin_KeepsFiles(s, sysno) ==
    LET filename_len == FrameReg(s, A1)
        buf_len == FrameReg(s, A3)
        u == s.umem[s.satp]
    IN
    IF filename_len > 0 /\ ~UserAccessOk(s) THEN KernelFault(s, 13)
    ELSE IF ~Utf8Ok(u.name) THEN Panic(s, "filename must be valid UTF-8")
    ELSE
    LET file_i == FsLookup(s.files, u.name)
        looked == Touch([ s EXCEPT !.console = 10 ], "FILES")
        s1 == Lock(looked, "FILES")
    IN
    IF file_i = NoIdx THEN TrapReturn(NoteRet(SetFrameA0(looked, -1), -1))
    ELSE IF buf_len > DATA_LEN THEN Panic(s1, "range end index out of range")
    ELSE IF sysno = SYS_WRITEFILE
    THEN IF buf_len > 0 /\ ~UserAccessOk(s1) THEN KernelFault(s1, 13)
         ELSE
         LET s2 == [ s1 EXCEPT !.files = [ @ EXCEPT ![file_i] =
                       [ @ EXCEPT !.data = Splice(@, 0, u.buf), !.size = buf_len ] ] ]
         IN  [ s2 EXCEPT !.kpc = "fs_flush" ]
    ELSE IF buf_len > 0 /\ ~UserAccessOk(s1) THEN KernelFault(s1, 15)
         ELSE
         LET s2 == [ s1 EXCEPT !.umem = [ @ EXCEPT ![s.satp].buf =
                                            ReadFileCopy(@, s.files[file_i]) ] ]
         IN  TrapReturn(NoteRet(SetFrameA0(Unlock(s2, "FILES"), buf_len), buf_len))

\* The SYS_READFILE | SYS_WRITEFILE arm of handle_syscall to its end, or to
\* its call of fs_flush, marked by kpc = "fs_flush".
SysFileBegin(s, sysno) ==
    LET filename_len == FrameReg(s, A1)
        buf_len == FrameReg(s, A3)
        u == s.umem[s.satp]
    IN
    IF filename_len > 0 /\ ~UserAccessOk(s) THEN KernelFault(s, 13)
    ELSE IF ~Utf8Ok(u.name) THEN Panic(s, "filename must be valid UTF-8")
    ELSE
    LET file_i == FsLookup(s.files, u.name)
        looked == Touch([ s EXCEPT !.console = 10 ], "FILES")
        s1 == Lock(looked, "FILES")
    IN
    IF file_i = NoIdx THEN TrapReturn(NoteRet(SetFrameA0(looked, -1), -1))
    ELSE IF buf_len > DATA_LEN THEN Panic(s1, "range end index out of range")
    ELSE IF sysno = SYS_WRITEFILE
    THEN IF buf_len > 0 /\ ~UserAccessOk(s1) THEN KernelFault(s1, 13)
         ELSE
         LET s2 == [ s1 EXCEPT !.files = [ @ EXCEPT ![file_i] =
                       [ @ EXCEPT !.data = Splice(@, 0, u.buf), !.size = buf_len ] ] ]
         IN  [ Unlock(s2, "FILES") EXCEPT !.kpc = "fs_flush" ]
    ELSE IF buf_len > 0 /\ ~UserAccessOk(s1) THEN KernelFault(s1, 15)
         ELSE
         LET s2 == [ s1 EXCEPT !.umem = [ @ EXCEPT ![s.satp].buf =
                                            ReadFileCopy(@, s.files[file_i]) ] ]
         IN  TrapReturn(NoteRet(SetFrameA0(Unlock(s2, "FILES"), buf_len), buf_len))

\* The SYS_WRITEFILE arm when fs_flush has returned.
WriteFileReturn(s3) ==
    LET buf_len == FrameReg(s3, A3)
    IN  IF s3.panic # "" THEN s3
        ELSE TrapReturn(NoteRet(SetFrameA0(s3, buf_len), buf_len))

\* The SYS_READFILE | SYS_WRITEFILE arm of handle_syscall; bad holds the
\* sectors whose request the device fails during fs_flush.
SysFile(s, sysno, bad) ==
    LET b == SysFileBegin(s, sysno)
    IN  IF b.kpc = "fs_flush" THEN WriteFileReturn(FsFlush([ b EXCEPT !.kpc = s.kpc ], bad))
        ELSE b

FileNames == { << >>, HelloTxt, NopeName }
BufLens == { 0, 3, 8, DATA_LEN, DATA_LEN + 1 }
AllSectors == 0 .. (DISK_MAX_SIZE \div SECTOR_SIZE - 1)

\* kernel_main: virtio_blk_init(), fs_init(), before any process exists.
KernelFsInit ==
    /\ kpc = "kernel_main"
    /\ blk.capacity = NoCap
    /\ IDLE_PROC = NoPid
    /\ UserPcbs(procs) = {}
    /\ \E bad \in { {}, AllSectors } : Commit(FsInit(VirtioBlkInit(St), bad))

\* A user program calls readfile or writefile: the name and a buffer of
\* buf_len bytes lie in its memory, the registers are set as sys_call does.
EcallFileAt(sysno, name, buf_len) ==
    /\ kpc = "user"
    /\ LET ur == [ UserRegs(satp, sysno) EXCEPT ![A0] = NAME_PTR, ![A1] = Len(name),
                                                ![A2] = BUF_PTR, ![A3] = buf_len ]
           pc == UserPc(satp, sysno)
           s0 == [ St EXCEPT !.regs = ur, !.sepc = pc, !.scause = SCAUSE_ECALL,
                     !.ecall = (satp :> [ regs |-> ur, pc |-> pc, ret |-> NoPid ]) @@ @,
                     !.umem = (satp :> [ name |-> name,
                                         buf |-> [ k \in 1 .. buf_len |-> 170 ] ]) @@ @ ]
       IN  Commit(HandleTrap(KernelEntry(s0)))

EcallFile(sysno, name, buf_len) ==
    /\ blk.avail_index < MaxBlkReqs
    /\ EcallFileAt(sysno, name, buf_len)

SysReadFile ==
    /\ Dispatch(SYS_READFILE)
    /\ Commit(SysFile(St, SYS_READFILE, {}))

SysWriteFile ==
    /\ Dispatch(SYS_WRITEFILE)
    /\ \E bad \in { {}, AllSectors } : Commit(SysFile(St, SYS_WRITEFILE, bad))

NextFs ==
    \/ KernelFsInit
    \/ KernelCreateProcess
    \/ KernelYield
    \/ UserEntry
    \/ \E sysno \in {SYS_READFILE, SYS_WRITEFILE} :
         \E name \in FileNames : \E buf_len \in BufLens : EcallFile(sysno, name, buf_len)
    \/ SysReadFile
    \/ SysWriteFile

SpecFs == InitFs /\ [][NextFs]_vars

\* ---------------------------------------------- the kernel as a whole
\* kernel_main with the drive holding hello.txt: the driver and the file
\* store are set up, processes are created and run, and they call getchar,
\* exit, readfile (of hello.txt with a buffer of 3 bytes) and writefile (of
\* the empty name, which names the first unused file, with an empty buffer)
\* as long as the driver has served the requests of fs_init only.
InitSys ==
    InitWith(Archive(<< [ name |-> HelloTxt, content |-> << 72, 101, 108, 108, 111 >> ] >>,
                     1, 0, Zeros(DISK_MAX_SIZE)))

NextSys ==
    \/ KernelFsInit
    \/ KernelCreateProcess
    \/ KernelYield
    \/ KernelMainPanic
    \/ UserEntry
    \/ \E sysno \in {SYS_GETCHAR, SYS_EXIT} : Ecall(sysno)
    \/ \E call \in { << SYS_WRITEFILE, << >>, 0 >>, << SYS_READFILE, HelloTxt, 3 >> } :
         /\ blk.avail_index = DISK_MAX_SIZE \div SECTOR_SIZE
         /\ EcallFile(call[1], call[2], call[3])
    \/ SysGetChar
    \/ SysExit
    \/ SysReadFile
    \/ SysWriteFile

SpecSys == InitSys /\ [][NextSys]_vars

\* ------------------------------------------------ the octal codec
\* int2oct and oct2int called as fs_flush and fs_init call them, on the
\* size field (12 bytes) or the checksum field (8 bytes) of a header.
\* usize values: small ones, the sizes of files, the largest sum of a
\* header (512 * 255), the powers of 8 about the widths of the two fields,
\* and words with the top bit set (negative here), up to usize::MAX.
OctInputs ==
    { 0, 1, 7, 8, 9, 63, 64, 511, 512, 513, 1024, 4095, 4096, 32767, 32768,
      HEADER_SIZE * 255, 8 ^ 6, 8 ^ 7 - 1, 8 ^ 7, 8 ^ 7 + 1, 8 ^ 8 - 1, 8 ^ 9,
      8 ^ 10 - 1, 8 ^ 10, 2147483647, -2147483647 - 1, -2147483647,
      -1073741824, -2, -1 }

FieldLens == { 12, 8 }

\* int2oct(dec, &mut field).
Int2OctCall(dec, len) ==
    /\ kpc = "kernel_main"
    /\ Commit([ St EXCEPT !.codec = [ dec |-> dec, field |-> Int2Oct(dec, len),
                                    back |-> NoCodec.back, stage |-> "encoded" ] ])

\* oct2int(&field).
Oct2IntCall ==
    /\ codec.stage = "encoded"
    /\ Commit([ St EXCEPT !.codec = [ @ EXCEPT !.back = Oct2Int(codec.field),
                                              !.stage = "decoded" ] ])

NextOct ==
    \/ \E dec \in OctInputs : \E len \in FieldLens : Int2OctCall(dec, len)
    \/ Oct2IntCall

SpecOct == Init /\ [][NextOct]_vars

\* ------------------------------------------- the file store by itself
\* The store driven from kernel context: the boot of KernelFsInit, fs_flush
\* as the WRITEFILE arm calls it, and a restart of the machine, which keeps
\* nothing but the drive.
FileBytes(n, seed) == [ k \in 1 .. n |-> 1 + ((seed + 7 * k) % 250) ]

\* "Hello from the shell!"
ShellGreeting == << 72, 101, 108, 108, 111, 32, 102, 114, 111, 109, 32, 116, 104,
                    101, 32, 115, 104, 101, 108, 108, 33 >>

HelloSizes == { 0, 1, 5, 511, 512, 513, 1024 }
MeowSizes == { 0, 3, 512 }

TarArchives ==
    { << >> }
    \cup { << [ name |-> HelloTxt, content |-> FileBytes(a, 1) ] >> : a \in HelloSizes }
    \cup { << [ name |-> HelloTxt, content |-> FileBytes(a, 1) ],
              [ name |-> MeowTxt, content |-> FileBytes(b, 2) ] >> :
           a \in HelloSizes, b \in MeowSizes }
    \cup { << [ name |-> HelloTxt, content |-> FileBytes(a, 1) ],
              [ name |-> MeowTxt, content |-> ShellGreeting ] >> : a \in {5, 512, 1024} }

TarImages == { Archive(es, 1, 0, Zeros(DISK_MAX_SIZE)) : es \in TarArchives }

InitTar == \E image \in TarImages : InitWith(image)

\* The state of the machine at kernel_main after a restart: the statics as
\* the image of the kernel has them, the drive as it was left.
PowerOn(s) ==
    [ s EXCEPT !.files = [ i \in FileSlots |-> ZeroedFile ],
               !.disk = Zeros(DISK_MAX_SIZE),
               !.blk = BlkAtBoot(s.blk.data),
               !.panic = "", !.kpc = "kernel_main", !.console = -1,
               !.ALLOCATOR = NoPAddr,
               !.ram = [ i \in RamPages |-> BootPage ],
               !.heap = << >>,
               !.images = << >>,
               !.locks = {},
               !.sw_locks = {},
               !.rw = NoCall,
               !.poll = NoPoll,
               !.yield_ops = << >> ]

\* fs_flush, the device serving every request.
TarFlush ==
    /\ kpc = "kernel_main"
    /\ blk.capacity # NoCap
    /\ blk.avail_index < MaxBlkReqs
    /\ Commit(FsFlush(St, {}))

\* The machine is restarted after the store was booted (also after a panic).
TarReboot ==
    /\ blk.capacity # NoCap
    /\ Commit(PowerOn(St))

NextTar ==
    \/ KernelFsInit
    \/ TarFlush
    \/ TarReboot

SpecTar == InitTar /\ [][NextTar]_vars

\* ------------------------------------------------- fs_init by itself
\* The boot of the file store on drives that hold archives as fs_flush
\* writes them, archives of three records, and archives with a record that
\* another tar wrote: a magic of "ustar ", a size field that is not octal,
\* a file of more than DATA_LEN bytes, a name that is not UTF-8; and a
\* record behind a header whose name starts with NUL.
GnuMagic == << 117, 115, 116, 97, 114, 32 >>
Latin1Name == << 98, 233, 46, 116, 120, 116 >>
Rec(name, n, seed) == [ name |-> name, content |-> FileBytes(n, seed) ]
Image(es) == Archive(es, 1, 0, Zeros(DISK_MAX_SIZE))

LoadImages ==
    TarImages
    \cup { Image(<< Rec(HelloTxt, a, 1), Rec(MeowTxt, b, 2), Rec(NopeName, 0, 3) >>) :
             a \in {0, 5, SECTOR_SIZE}, b \in {0, 3, SECTOR_SIZE} }
    \cup { Splice(Image(<< Rec(HelloTxt, 5, 1), Rec(MeowTxt, 3, 2) >>),
                  off + OFF_MAGIC, GnuMagic) : off \in {0, 2 * SECTOR_SIZE} }
    \cup { Splice(Image(<< Rec(HelloTxt, 5, 1), Rec(MeowTxt, 3, 2) >>),
                  off + OFF_SIZE, << 32, 32, 53 >>) : off \in {0, 2 * SECTOR_SIZE} }
    \cup { Image(<< Rec(HelloTxt, DATA_LEN + 1, 1) >>),
           Image(<< Rec(HelloTxt, 5, 1), Rec(MeowTxt, SECTOR_SIZE + 1, 2) >>),
           Image(<< Rec(Latin1Name, 5, 1) >>),
           Image(<< Rec(HelloTxt, 5, 1), Rec(Latin1Name, 3, 2) >>),
           Splice(Zeros(DISK_MAX_SIZE), SECTOR_SIZE, TarHeaderBytes(Pad(MeowTxt, NAME_LEN), 0)) }

InitLoad == \E image \in LoadImages : InitWith(image)

NextLoad == KernelFsInit

SpecLoad == InitLoad /\ [][NextLoad]_vars

\* ---------------------------------------- the block driver by itself
\* virtio_blk_init, and read_write_disk called on a sector of the disk
\* buffer: with the first, the last and no sector of the device, and with
\* a device that serves the request (status 0) or fails it.
BlkSectors ==
    { 0, Len(blk.data) \div SECTOR_SIZE - 1, Len(blk.data) \div SECTOR_SIZE, 2147483647 }

BlkInit ==
    /\ kpc = "kernel_main"
    /\ blk.capacity = NoCap
    /\ Commit(VirtioBlkInit(St))

BlkReadWrite(offset, sector, is_write, status) ==
    /\ kpc = "kernel_main"
    /\ \/ blk.avail_index < MaxBlkCalls
       \/ blk.capacity # NoCap /\ sector >= blk.capacity \div SECTOR_SIZE
    /\ Commit(ReadWriteDisk(St, offset, sector, is_write, status))

NextBlk ==
    \/ BlkInit
    \/ \E offset \in {0, SECTOR_SIZE} : \E sector \in BlkSectors :
         \E is_write \in BOOLEAN : \E status \in {0, 1} :
           BlkReadWrite(offset, sector, is_write, status)

SpecBlk == InitSys /\ [][NextBlk]_vars

\* ------------------------------------ the block driver, step by step
\* kernel_main and user programs that call writefile (of the empty name,
\* with an empty buffer), with read_write_disk taken in steps: the call to
\* the return of virtq_kick, the device's handling of the notification,
\* the loop on virtq_is_busy, and the return.  kpc names the sector loop
\* the hart is in, and rw the call of read_write_disk it made last.  As in
\* kernel_main, user programs run once fs_init has returned.
InDiskLoop == kpc \in {"fs_init", "fs_flush"}

AtLoopHead == InDiskLoop /\ ~InBusyLoop(St)

Waiting == InDiskLoop /\ InBusyLoop(St)

NextSector == rw.sector + 1

\* kernel_main: virtio_blk_init(), and fs_init() to its sector loop.
DiskFsInit ==
    /\ kpc = "kernel_main"
    /\ blk.capacity = NoCap
    /\ IDLE_PROC = NoPid
    /\ UserPcbs(procs) = {}
    /\ LET b == FsInitBegin(VirtioBlkInit(St))
       IN  Commit(IF b.panic # "" THEN b
                  ELSE [ b EXCEPT !.kpc = "fs_init", !.rw = NoCall ])

\* The SYS_WRITEFILE arm, and fs_flush to its sector loop.
DiskWriteFile ==
    /\ Dispatch(SYS_WRITEFILE)
    /\ LET b == SysFileBegin(St, SYS_WRITEFILE)
           f == FsFlushBegin([ b EXCEPT !.kpc = kpc ])
       IN  Commit(IF b.kpc # "fs_flush" \/ b.stuck THEN b
                  ELSE IF f.panic # "" \/ f.stuck THEN f
                  ELSE [ f EXCEPT !.kpc = "fs_flush", !.rw = NoCall ])

\* The sector loop calls read_write_disk on its next sector.
DiskCall ==
    /\ AtLoopHead
    /\ NextSector < DISK_MAX_SIZE \div SECTOR_SIZE
    /\ Commit(RwdCall(St, NextSector * SECTOR_SIZE, NextSector, kpc = "fs_flush", 0))

\* The device handles the notification, answering with status.
DiskDevice ==
    /\ blk.handled # blk.notify
    /\ \E status \in {0, 1} :
         Commit([ St EXCEPT !.blk = DeviceServe(@, status),
                            !.rw = [ @ EXCEPT !.status = status ] ])

\* while virtq_is_busy(..) { spin_loop(); print!(".") }
DiskSpin ==
    /\ Waiting
    /\ VirtqIsBusy(blk)
    /\ Commit([ St EXCEPT !.console = 46 ])

DiskReturn ==
    /\ Waiting
    /\ ~VirtqIsBusy(blk)
    /\ Commit(RequestDone(St, rw.offset, rw.is_write))

\* The sector loop is over: fs_init loads the files, fs_flush returns to
\* the SYS_WRITEFILE arm.
DiskLoopEnd ==
    /\ AtLoopHead
    /\ NextSector >= DISK_MAX_SIZE \div SECTOR_SIZE
    /\ Commit(IF kpc = "fs_init" THEN FsInitEnd([ St EXCEPT !.kpc = "kernel_main" ])
              ELSE WriteFileReturn(FsFlushEnd([ St EXCEPT !.kpc = "handle_syscall" ])))

NextDisk ==
    \/ DiskFsInit
    \/ KernelCreateProcess
    \/ KernelYield
    \/ UserEntry
    \/ /\ DISK_MAX_SIZE \div SECTOR_SIZE <= blk.avail_index
       /\ blk.avail_index < MaxDiskReqs
       /\ EcallFileAt(SYS_WRITEFILE, << >>, 0)
    \/ DiskWriteFile
    \/ DiskCall
    \/ DiskDevice
    \/ DiskSpin
    \/ DiskReturn
    \/ DiskLoopEnd

\* The device handles every notification in the end, and the hart goes on
\* executing.
DeviceHandles == []<>(blk.handled = blk.notify)

HartRuns == []<>(~AtLoopHead) /\ []<>(~(Waiting /\ ~VirtqIsBusy(blk)))

SpecDisk == InitSys /\ [][NextDisk]_vars /\ DeviceHandles /\ HartRuns

\* ------------------------------------- the GETCHAR loop, scheduled fairly
\* kernel_main and user programs that call getchar and exit, every
\* get_char() noted in poll.
Tags == { BitOr(SATP_SV32, PageTableAddr(i)) : i \in 0 .. MaxCreate }

\* The program of address space tag has called getchar and the call has
\* not returned.
GetCharWaiting(tag) ==
    /\ tag \in DOMAIN ecall
    /\ ecall[tag].regs[A4] = SYS_GETCHAR
    /\ ecall[tag].ret = NoPid

AnyWaiting == \E tag \in Tags : GetCharWaiting(tag)

GetCharTurn ==
    /\ GetCharPending
    /\ \E ch \in SbiChars :
         Commit([ GetCharPoll(St, ch) EXCEPT
                    !.poll = [ tag |-> satp, ch |-> ch, n |-> 1 - poll.n ] ])

NextGetChar ==
    \/ KernelCreateProcess
    \/ KernelYield
    \/ KernelMainPanic
    \/ UserEntry
    \/ \E sysno \in {SYS_GETCHAR, SYS_EXIT} : Ecall(sysno)
    \/ GetCharTurn
    \/ SysExit

\* While a getchar is waiting the hart keeps running and its programs keep
\* calling getchar or exit: there is always one more get_char().
PollsGoOn ==
    /\ []<>(~AnyWaiting \/ poll.n = 0)
    /\ []<>(~AnyWaiting \/ poll.n = 1)

\* No program keeps the hart for ever: while a getchar is waiting, there
\* is always one more get_char() that finds no character and yields.
OthersYield == []<>(~AnyWaiting \/ poll.ch = -1)

\* A program that polls the console again and again finds a character at
\* some poll.
CharComes(tag) == <>[](poll.tag # tag) \/ []<>(poll.tag = tag /\ poll.ch # -1)

SpecGetChar ==
    /\ Init
    /\ [][NextGetChar]_vars
    /\ PollsGoOn
    /\ OthersYield
    /\ \A tag \in Tags : CharComes(tag)

\* ------------------------------------- the process table, filled up
\* kernel_main creating processes until no PCB is Unused and once more,
\* yield_now in between, and user programs that exit: the pid that
\* create_process returns is in a0 when kernel_main goes on.
ProcCreate ==
    /\ kpc = "kernel_main"
    /\ LET Returned(c) == IF c.panic # "" THEN c
                          ELSE [ c EXCEPT !.regs = [ @ EXCEPT ![A0] = c.ret ] ]
       IN  Commit(Returned(CreateProcess(St)))

NextProc ==
    \/ ProcCreate
    \/ KernelYield
    \/ KernelMainPanic
    \/ UserEntry
    \/ Ecall(SYS_EXIT)
    \/ SysExit

SpecProc == Init /\ [][NextProc]_vars

\* ------------------------------------------- the allocator by itself
\* Sizes of the layouts: one byte, a page, a page and a byte, three pages,
\* all of free RAM but a page, all of free RAM, and what is left of the
\* address space above __free_ram.
AllocSizes ==
    { 1, PAGE_SIZE, PAGE_SIZE + 1, 3 * PAGE_SIZE, (FreeRamPages - 1) * PAGE_SIZE,
      FreeRamPages * PAGE_SIZE, (PageCount - PageNo(__free_ram)) * PAGE_SIZE }

\* Kernel code allocates.
AllocCall(size, overflow_checks) ==
    /\ kpc = "kernel_main"
    /\ Len(heap) < MaxAllocs
    /\ Commit(Alloc(St, size, overflow_checks))

\* Kernel code frees a region it was given.
DeallocCall(k) ==
    /\ kpc = "kernel_main"
    /\ k \in DOMAIN heap
    /\ Commit(Dealloc(St, heap[k].paddr, heap[k].size))

NextAlloc ==
    \/ \E size \in AllocSizes, overflow_checks \in BOOLEAN : AllocCall(size, overflow_checks)
    \/ \E k \in 1 .. MaxAllocs : DeallocCall(k)

SpecAlloc == Init /\ [][NextAlloc]_vars

\* ---------------------------------------- create_process by itself
\* Images: empty, one byte, a page, a page and a byte, two pages.
Images ==
    { [ img |-> 1, size |-> 0 ], [ img |-> 2, size |-> 1 ], [ img |-> 3, size |-> PAGE_SIZE ],
      [ img |-> 4, size |-> PAGE_SIZE + 1 ], [ img |-> 5, size |-> 2 * PAGE_SIZE ] }

\* Kernel code creates a process from an image.
VmCreateProcess(image) ==
    /\ kpc = "kernel_main"
    /\ Cardinality(UserPcbs(procs)) < MaxCreate
    /\ Commit(CreateProcessImage(St, image))

NextVm == \E image \in Images : VmCreateProcess(image)

SpecVm == Init /\ [][NextVm]_vars

\* ---------------------------------------------------------- properties
RunnableUsers == { i \in Slots : procs[i].state = "Runnable" /\ procs[i].pid # IDLE_PID }

RunnablePids == { procs[i].pid : i \in RunnableUsers }

\* The stack the processor is working on: in kernel mode the one sp is in,
\* in user mode the one sscratch names for the next trap.
RunningCtx == IF kpc = "user" THEN StackOwner(sscratch) ELSE StackOwner(regs[SP])

LastChosen == sched_trace[Len(sched_trace)]

\* C1: on every yield_now after the idle process exists, the pid chosen is
\* the pid of a Runnable non-idle PCB if there is one, else the idle pid 0;
\* so the idle process is current only when no other PCB is Runnable.
C1_IdleOnlyWhenNoneRunnable ==
    (IDLE_PROC # NoPid /\ sched_trace # << >>) =>
        /\ IF RunnableUsers # {} THEN LastChosen \in RunnablePids
                                 ELSE LastChosen = IDLE_PID
        /\ panic = "" => CURRENT_PROC = LastChosen
        /\ (CURRENT_PROC = IDLE_PID /\ panic = "") => RunnableUsers = {}

C1_Witness ==
    /\ Len(sched_trace) >= 2
    /\ Cardinality(RunnableUsers) >= 2
    /\ LastChosen # IDLE_PID
    /\ CURRENT_PROC = LastChosen
    /\ kpc = "getchar_loop"

\* The Runnable non-idle slot that follows slot i in cyclic slot order.
CyclicNext(i) ==
    LET D == { d \in 1 .. PROCS_MAX : ((i + d) % PROCS_MAX) \in RunnableUsers }
    IN  (i + Min(D)) % PROCS_MAX

\* C2: while the set of Runnable non-idle PCBs is fixed and not empty,
\* successive yields choose them in cyclic slot order: between two
\* consecutive choices of one pid every other Runnable pid is chosen exactly
\* once, the idle pid never; with two processes they alternate strictly.
C2_RoundRobin ==
    RunnableUsers # {} =>
        /\ \A k \in 1 .. Len(sched_trace) : sched_trace[k] \in RunnablePids
        /\ \A k \in 1 .. Len(sched_trace) - 1 :
             sched_trace[k + 1] = procs[CyclicNext(sched_trace[k] - 1)].pid
        /\ \A i, j \in 1 .. Len(sched_trace) :
             (/\ i < j
              /\ sched_trace[i] = sched_trace[j]
              /\ \A k \in (i + 1) .. (j - 1) : sched_trace[k] # sched_trace[i])
             => /\ { sched_trace[k] : k \in (i + 1) .. (j - 1) }
                     = RunnablePids \ { sched_trace[i] }
                /\ j - i = Cardinality(RunnablePids)
        /\ Cardinality(RunnablePids) = 2 =>
             \A k \in 1 .. Len(sched_trace) - 1 : sched_trace[k + 1] # sched_trace[k]

C2_Witness ==
    /\ Cardinality(RunnableUsers) = MaxCreate
    /\ Len(sched_trace) = MaxCreate + 1
    /\ sched_trace[1] = sched_trace[MaxCreate + 1]

ExitedSlots == { i \in Slots : procs[i].state = "Exited" }

\* A step in which a PCB becomes Exited: the EXIT system call.
ExitStep(i) == procs[i].state = "Runnable" /\ procs'[i].state = "Exited"

\* C3: once a process has issued EXIT its PCB is Exited for ever, no later
\* yield_now chooses its pid, the unreachable! after the yield of EXIT is
\* never executed, and if no other non-idle PCB is Runnable at the exit the
\* idle process becomes current.
C3_ExitIsFinal ==
    /\ [](/\ panic # "unreachable after SYS_EXIT"
          /\ \A i \in ExitedSlots :
               /\ CURRENT_PROC # procs[i].pid
               /\ RunningCtx # i
               /\ \A k \in 1 .. Len(sched_trace) : sched_trace[k] # procs[i].pid)
    /\ [][\A i \in Slots :
            /\ procs[i].state = "Exited" =>
                 (procs'[i].state = "Exited" /\ procs'[i].pid = procs[i].pid)
            /\ ExitStep(i) =>
                 /\ CURRENT_PROC = procs[i].pid
                 /\ IF \E j \in Slots : procs'[j].state = "Runnable" /\ procs'[j].pid # IDLE_PID
                    THEN \E j \in Slots \ {i} : /\ procs'[j].state = "Runnable"
                                                /\ procs'[j].pid = CURRENT_PROC'
                                                /\ procs'[j].pid # IDLE_PID
                    ELSE CURRENT_PROC' = IDLE_PID /\ kpc' = "kernel_main"]_vars

C3_Witness ==
    /\ Cardinality(ExitedSlots) >= 2
    /\ RunnableUsers = {}
    /\ CURRENT_PROC = IDLE_PID
    /\ kpc = "kernel_main"

\* C4: no two PCBs share a nonzero pid; a PCB created for a user image has
\* pid = slot + 1, which lies in 1..PROCS_MAX; from the first yield_now on
\* exactly one PCB that is not Unused has pid 0.
C4_PidsUnique ==
    /\ \A i, j \in Slots : (i # j /\ procs[i].pid # 0) => procs[i].pid # procs[j].pid
    /\ \A i \in Slots : (procs[i].state # "Unused" /\ procs[i].pid # IDLE_PID) =>
                           (procs[i].pid = i + 1 /\ procs[i].pid \in 1 .. PROCS_MAX)
    /\ IDLE_PROC = NoPid =>
         { i \in Slots : procs[i].state # "Unused" /\ procs[i].pid = 0 } = {}
    /\ IDLE_PROC # NoPid =>
         /\ IDLE_PROC = IDLE_PID
         /\ Cardinality({ i \in Slots : procs[i].state # "Unused" /\ procs[i].pid = 0 }) = 1

C4_Witness ==
    /\ IDLE_PROC # NoPid
    /\ \E i, j \in UserPcbs(procs) : \E z \in Slots :
         i < z /\ z < j /\ procs[z].pid = 0 /\ procs[z].state # "Unused"

YieldExpects == { "CURRENT_PROC initialised before use",
                  "current process PID should have an index",
                  "should find next by pid",
                  "should find current by pid",
                  "indices should be valid and distinct",
                  "page_table should exist" }

\* C5: after the first yield_now CURRENT_PROC is the pid of a PCB that is
\* not Unused, the first-match lookup of that pid gives the slot of the
\* process that is executing (for pid 0 the idle PCB, although Unused PCBs
\* carry pid 0 too), and no expect of yield_now fails.
C5_CurrentIsFound ==
    /\ panic \notin YieldExpects
    /\ IDLE_PROC # NoPid =>
         LET i == TryGetIndex(procs, CURRENT_PROC)
         IN  /\ CURRENT_PROC # NoPid
             /\ i # NoIdx
             /\ procs[i].state # "Unused"
             /\ kpc # "wild"
             /\ IF RunningCtx = BootStack
                THEN procs[i].pid = IDLE_PID /\ StackOwner(procs[i].sp) \in {i, BootStack}
                ELSE RunningCtx = i

C5_Witness ==
    /\ CURRENT_PROC = IDLE_PID
    /\ TryGetIndex(procs, IDLE_PID) > 0
    /\ \E i \in Slots : procs[i].state = "Unused" /\ procs[i].pid = 0
    /\ sw.owner = BootStack
    /\ kpc = "kernel_main"

\* The PCB whose sp field a switched-out context was recorded in: its own
\* slot, or for the boot stack the PCB of the idle process.
PcbOf(o) == IF o = BootStack THEN TryGetIndex(procs, IDLE_PID) ELSE o

\* C6: a context that switch_context resumes gets back the ra, s0..s11 and
\* sp it had when it was switched out, and while it is switched out nothing
\* overwrites its 13 saved words or the sp saved in its PCB.
C6_ContextPreserved ==
    /\ sw.expected # << >> => sw.restored = sw.expected
    /\ \A o \in DOMAIN saved :
         /\ o # RunningCtx
         /\ procs[PcbOf(o)].sp = saved[o].sp - CALLEE_SAVED * WORD_BYTES
         /\ RdSeq(kmem, procs[PcbOf(o)].sp, CALLEE_SAVED) = saved[o].regs

C6_Witness ==
    /\ sw.expected # << >>
    /\ sw.owner \in Slots
    /\ sw.restored[1] = RA_YIELD
    /\ Cardinality(DOMAIN saved) >= 3
    /\ DOMAIN ecall # {}
    /\ kpc = "getchar_loop"

\* C7: when a system call returns to user mode every user register except
\* a0 has the value it had at the ecall, the user sp included, and a0 has
\* the return value, also when the handler yielded and other processes ran
\* and trapped in between.
C7_RegistersTransparent ==
    (kpc = "user" /\ satp \in DOMAIN ecall) =>
        /\ \A k \in (1 .. FRAME_WORDS) \ {A0} : regs[k] = ecall[satp].regs[k]
        /\ regs[A0] = ecall[satp].ret
        /\ ecall[satp].ret # NoPid

C7_Witness ==
    /\ kpc = "user"
    /\ satp \in DOMAIN ecall
    /\ ecall[satp].regs[A4] = SYS_GETCHAR
    /\ regs[A0] = 104
    /\ sw.expected # << >>
    /\ sw.owner = RunningCtx
    /\ Cardinality(DOMAIN ecall) >= 2

\* C8: the sepc at the sret of a system call is the address of the very
\* ecall of the returning process plus 4, also when the handler yielded
\* and other processes trapped before it resumed.
C8_SepcIsOwnEcall ==
    (kpc = "user" /\ satp \in DOMAIN ecall) => sepc = ecall[satp].pc + 4

C8_Witness ==
    /\ kpc = "user"
    /\ satp \in DOMAIN ecall
    /\ ecall[satp].regs[A4] = SYS_GETCHAR
    /\ sw.owner = RunningCtx
    /\ \E t \in DOMAIN ecall : t # satp /\ ecall[t].pc # ecall[satp].pc
    /\ sepc = ecall[satp].pc + 4

\* The handler is about to run a READFILE or WRITEFILE whose name is the
\* name of no File record.
FileMissPending ==
    /\ kpc = "handle_syscall"
    /\ FrameReg(St, A4) \in {SYS_READFILE, SYS_WRITEFILE}
    /\ FsLookup(files, umem[satp].name) = NoIdx

\* C9: a READFILE or WRITEFILE whose name matches no file returns ~0 in
\* a0, leaves the user buffer, every File record and the disk buffer as
\* they were, and issues no request to the block device.
C9_FileNotFound ==
    [][FileMissPending =>
         /\ kpc' = "user"
         /\ regs'[A0] = -1
         /\ umem'[satp].buf = umem[satp].buf
         /\ files' = files
         /\ disk' = disk
         /\ blk' = blk]_vars

\* The handler is about to run a READFILE of a file in the store, the
\* length of the buffer and the size of the file within 0..=1024.
ReadHitPending ==
    /\ kpc = "handle_syscall"
    /\ FrameReg(St, A4) = SYS_READFILE
    /\ FrameReg(St, A3) <= DATA_LEN
    /\ LET i == FsLookup(files, umem[satp].name)
       IN  i # NoIdx /\ files[i].in_use /\ files[i].size <= DATA_LEN

\* C10: READFILE of an existing file copies exactly min(buf_len, size)
\* bytes of its data into the user buffer, leaves the rest of the buffer
\* and the file store as they were, and returns buf_len in a0.
C10_ReadFileCopiesMin ==
    [][ReadHitPending =>
         LET file == files[FsLookup(files, umem[satp].name)]
             buf_len == FrameReg(St, A3)
             n == IF buf_len < file.size THEN buf_len ELSE file.size
         IN  /\ kpc' = "user"
             /\ regs'[A0] = buf_len
             /\ SubSeq(umem'[satp].buf, 1, n) = SubSeq(file.data, 1, n)
             /\ \A k \in (n + 1) .. buf_len : umem'[satp].buf[k] = umem[satp].buf[k]
             /\ files' = files
             /\ disk' = disk
             /\ blk' = blk]_vars

\* The handler is about to run a WRITEFILE to a file in the store, the
\* length of the buffer within 0..=1024.
WriteHitPending ==
    /\ kpc = "handle_syscall"
    /\ FrameReg(St, A4) = SYS_WRITEFILE
    /\ FrameReg(St, A3) <= DATA_LEN
    /\ LET i == FsLookup(files, umem[satp].name)
       IN  i # NoIdx /\ files[i].in_use

\* C11: WRITEFILE to an existing file with buf_len <= 1024 sets
\* data[..buf_len] to the user buffer and size to buf_len, leaves every
\* other File record as it was, has written the whole disk buffer to the
\* device when it returns (unless the device refused the requests), and
\* returns buf_len in a0.
C11_WriteFileStoresAndFlushes ==
    [][WriteHitPending =>
         LET i == FsLookup(files, umem[satp].name)
             buf_len == FrameReg(St, A3)
         IN  /\ kpc' = "user"
             /\ regs'[A0] = buf_len
             /\ SubSeq(files'[i].data, 1, buf_len) = umem[satp].buf
             /\ files'[i].size = buf_len
             /\ files'[i].name = files[i].name
             /\ \A j \in FileSlots \ {i} : files'[j] = files[j]
             /\ blk'.avail_index = blk.avail_index + DISK_MAX_SIZE \div SECTOR_SIZE
             /\ \/ Slice(blk'.data, 0, DISK_MAX_SIZE) = disk'
                \/ blk'.data = blk.data]_vars

\* The table r a restart loads is the projection of the table fs.
RoundTripOk(fs, r) ==
    \A i \in FileSlots :
        IF fs[i].in_use
        THEN /\ r[i].in_use
             /\ r[i].name = fs[i].name
             /\ r[i].size = fs[i].size
             /\ r[i].data = Pad(SubSeq(fs[i].data, 1, fs[i].size), DATA_LEN)
        ELSE ~r[i].in_use

\* A restart and fs_init, from the state f that fs_flush has left.
RestartThenInit(f) == FsInit(VirtioBlkInit(PowerOn(f)), {})

\* C12: for every file table whose in_use files have size <= 1024, fs_flush
\* runs to its end, and fs_init on a zeroed table after it (a restart of
\* the machine) gives each in_use file the same
\* name, size and data[..size], NUL beyond size, and in_use = FALSE for
\* every slot that was not in use.
C12_FlushInitRoundTrip ==
    (/\ kpc = "kernel_main"
     /\ panic = ""
     /\ blk.capacity # NoCap
     /\ \A i \in FileSlots : files[i].size <= DATA_LEN)
    => \A f \in { FsFlush(St, {}) } :
         /\ f.panic = ""
         /\ \A r \in { RestartThenInit(f) } : r.panic = "" /\ RoundTripOk(files, r.files)

\* C13: oct2int of the field int2oct has filled gives back the number: for
\* every usize in the 12-byte size field (11 digits, 8^11 is above
\* usize::MAX), and in the 8-byte checksum field for every number below
\* 8^7, the largest sum of a header, 512 * 255, among them.
C13_OctalRoundTrip ==
    /\ HEADER_SIZE * 255 < 8 ^ 7
    /\ (/\ codec.stage = "decoded"
        /\ \/ Len(codec.field) = 12
           \/ Len(codec.field) = 8 /\ codec.dec >= 0 /\ codec.dec < 8 ^ 7)
       => (codec.back.ok /\ codec.back.val = codec.dec)

C13_Witness ==
    /\ codec.stage = "decoded"
    /\ Len(codec.field) = 12
    /\ codec.dec = -1
    /\ codec.field = << 51, 55, 55, 55, 55, 55, 55, 55, 55, 55, 55, 0 >>
    /\ codec.back = [ ok |-> TRUE, val |-> -1 ]

\* The slots and offsets of the headers fs_flush writes for a file table.
RECURSIVE HeaderOffs(_, _, _)
HeaderOffs(fs, i, off) ==
    IF i >= FILES_MAX \/ ~fs[i].in_use \/ off + HEADER_SIZE > DISK_MAX_SIZE THEN {}
    ELSE { [ slot |-> i, off |-> off ] }
         \cup HeaderOffs(fs, i + 1, off + AlignUp(HEADER_SIZE + fs[i].size, SECTOR_SIZE))

\* The sum of the bytes of a header, its checksum field counted as spaces.
HeaderSum(h) ==
    SumBytes([ k \in 1 .. HEADER_SIZE |->
                 IF k > OFF_CHECKSUM /\ k <= OFF_CHECKSUM + 8 THEN 32 ELSE h[k] ],
             1, HEADER_SIZE)

HeaderOk(h, file) ==
    /\ Oct2Int(Slice(h, OFF_CHECKSUM, 8)) = [ ok |-> TRUE, val |-> HeaderSum(h) ]
    /\ Slice(h, OFF_MAGIC, 6) = << 117, 115, 116, 97, 114, 0 >>
    /\ Slice(h, OFF_VERSION, 2) = << 48, 48 >>
    /\ Slice(h, OFF_MODE, 8) = << 48, 48, 48, 48, 48, 54, 52, 52 >>
    /\ h[OFF_TYPEFLAG + 1] = 48
    /\ Oct2Int(Slice(h, OFF_SIZE, 12)) = [ ok |-> TRUE, val |-> file.size ]

\* A step of fs_flush: the store is booted and stays so, and requests were
\* issued or the flush panicked.
FlushStep ==
    /\ blk.capacity # NoCap
    /\ blk'.capacity # NoCap
    /\ panic = ""
    /\ blk'.avail_index # blk.avail_index \/ panic' # ""

\* C14: every header fs_flush writes into the disk buffer has a checksum
\* field that decodes to the sum of its 512 bytes with the checksum field
\* counted as spaces, the magic "ustar\0", the version "00", the mode
\* "00000644", the typeflag '0', and a size field that decodes to file.size.
C14_HeaderFields ==
    [][FlushStep =>
         \A e \in HeaderOffs(files, 0, 0) :
             HeaderOk(Slice(disk', e.off, HEADER_SIZE), files[e.slot])]_vars

C14_Witness ==
    /\ panic = ""
    /\ blk.avail_index = 2 * (DISK_MAX_SIZE \div SECTOR_SIZE)
    /\ files[0].in_use /\ files[0].size = 512
    /\ files[1].in_use /\ files[1].size = 21
    /\ HeaderOffs(files, 0, 0) = { [ slot |-> 0, off |-> 0 ], [ slot |-> 1, off |-> 1024 ] }
    /\ HeaderOk(Slice(disk, 1024, HEADER_SIZE), files[1])
    /\ disk[1025] = 109

\* The cursor an Option<PAddr> stands for.
CursorOf(a) == IF a = NoPAddr THEN __free_ram ELSE a

\* The region alloc returned last, as [size, paddr].
LastRegion(h) == h[Len(h)]

Disjoint(r, q) ==
    \/ PageNo(r.paddr) + PagesOf(r.size) <= PageNo(q.paddr)
    \/ PageNo(q.paddr) + PagesOf(q.size) <= PageNo(r.paddr)

\* C15: over any sequence of alloc calls, a call returns the cursor as it
\* was and advances it by align_up(size, 4096); the cursor never decreases;
\* a returned region is page-aligned, ends at or before __free_ram_end and
\* is disjoint from every earlier one; dealloc changes nothing; a call that
\* would move the cursor past __free_ram_end panics and leaves the cursor,
\* and only such a call panics.
C15_BumpAllocator ==
    [][/\ PageNo(CursorOf(ALLOCATOR')) >= PageNo(CursorOf(ALLOCATOR))
       /\ (panic = "" /\ panic' # "")
            => CursorOf(ALLOCATOR') = CursorOf(ALLOCATOR) /\ heap' = heap
       /\ Len(heap') > Len(heap)
            => LET r == LastRegion(heap')
               IN  /\ heap' = Append(heap, r)
                   /\ r.paddr = CursorOf(ALLOCATOR)
                   /\ r.paddr % PAGE_SIZE = 0
                   /\ PageNo(CursorOf(ALLOCATOR')) = PageNo(r.paddr) + PagesOf(r.size)
                   /\ PageNo(CursorOf(ALLOCATOR')) <= PageNo(__free_ram_end)
                   /\ \A k \in DOMAIN heap : Disjoint(r, heap[k])
       /\ \A size \in AllocSizes, overflow_checks \in BOOLEAN :
            (Alloc(St, size, overflow_checks).panic = "")
               <=> (PageNo(CursorOf(ALLOCATOR)) + PagesOf(size) <= PageNo(__free_ram_end))
       /\ \A k \in DOMAIN heap : Dealloc(St, heap[k].paddr, heap[k].size) = St]_vars

\* Every byte of the page is zero.
ZeroPage(p) ==
    /\ p.len = 0
    /\ p.zend = PAGE_SIZE \/ p.fill = 0
    /\ \A w \in DOMAIN p.words : p.words[w] = 0

\* C16: at the moment alloc returns, every byte of the align_up(size, 4096)
\* bytes of the returned region is zero.
C16_AllocZeroFilled ==
    [][Len(heap') > Len(heap)
         => LET r == LastRegion(heap')
            IN  \A i \in RamRange(PageNo(r.paddr), PagesOf(r.size)) : ZeroPage(ram'[i])]_vars

\* The page of RAM at an address (a page outside free RAM reads as the
\* machine started it).
PageAt(m, a) == IF RamIdx(a) \in RamPages THEN m[RamIdx(a)] ELSE BootPage

ValidEntries(p) == { x \in 0 .. (ENTRIES_PER_TABLE - 1) : WordAt(p, x) % 2 = 1 }

\* The valid leaf entries the table at table1 leads to, as [vpn, pte].
Leaves(m, table1) ==
    LET t1 == PageAt(m, table1)
    IN  UNION { LET t0 == PageAt(m, PAddrOf(WordAt(t1, v1) \div 1024))
                IN  { [ vpn |-> v1 * ENTRIES_PER_TABLE + v0, pte |-> WordAt(t0, v0) ] :
                      v0 \in ValidEntries(t0) } :
                v1 \in ValidEntries(t1) }

\* The leaf entries the address space of slot i is to have.
ExpectedLeaves(i) ==
    { [ vpn |-> pn, pte |-> pn * 1024 + PAGE_R + PAGE_W + PAGE_X + PAGE_V ] :
      pn \in PageNo(__kernel_base) .. (PageNo(__free_ram_end) - 1) }
    \cup { [ vpn |-> PageNo(USER_BASE) + k,
             pte |-> (PageNo(images[i].data) + k) * 1024
                     + PAGE_U + PAGE_R + PAGE_W + PAGE_X + PAGE_V ] :
           k \in 0 .. (PagesOf(images[i].size) - 1) }

\* Page k of the copy of an image: its bytes, zeros after them.
ImagePageOk(p, image, k) ==
    /\ p.img = image.img
    /\ p.from = k * PAGE_SIZE
    /\ p.len = (IF image.size - k * PAGE_SIZE < PAGE_SIZE
                THEN image.size - k * PAGE_SIZE ELSE PAGE_SIZE)
    /\ p.zend = PAGE_SIZE
    /\ p.words = << >>

ImageFrames(i) == { PageNo(images[i].data) + k : k \in 0 .. (PagesOf(images[i].size) - 1) }

\* C17: in the page table create_process(image, image_size) builds, each
\* page of [__kernel_base, __free_ram_end) is mapped to itself with V|R|W|X
\* and without U, each page of [USER_BASE, USER_BASE + align_up(image_size,
\* 4096)) is mapped with V|U|R|W|X to the page of the process's own
\* zero-padded copy of the image, no other virtual page has a valid leaf
\* entry, and no user mapping of a process points to a frame of the image of
\* another.
C17_AddressSpace ==
    \A i \in Slots :
        procs[i].state # "Unused" =>
            /\ i \in DOMAIN images
            /\ Leaves(ram, procs[i].page_table) = ExpectedLeaves(i)
            /\ \A k \in 0 .. (PagesOf(images[i].size) - 1) :
                 ImagePageOk(PageAt(ram, images[i].data + k * PAGE_SIZE), images[i], k)
            /\ images[i].size > 0 =>
                 \E h \in DOMAIN heap :
                     /\ heap[h].paddr = images[i].data
                     /\ heap[h].size = AlignUp(images[i].size, PAGE_SIZE)
            /\ \A j \in Slots \ {i} :
                 procs[j].state # "Unused" /\ j \in DOMAIN images
                     => ImageFrames(i) \cap ImageFrames(j) = {}

C17_Witness ==
    /\ panic = ""
    /\ procs[0].state = "Runnable" /\ procs[1].state = "Runnable"
    /\ images[0].size = 1 /\ images[1].size = PAGE_SIZE + 1
    /\ [ vpn |-> PageNo(USER_BASE) + 1,
         pte |-> (PageNo(images[1].data) + 1) * 1024 + 31 ]
           \in Leaves(ram, procs[1].page_table)
    /\ [ vpn |-> PageNo(__free_ram), pte |-> PageNo(__free_ram) * 1024 + 15 ]
           \in Leaves(ram, procs[1].page_table)
    /\ PageAt(ram, images[1].data + PAGE_SIZE).len = 1

\* C18: at every call of switch_context by yield_now, from the GETCHAR
\* loop, from the EXIT arm or from kernel_main, no SpinLock is locked, and
\* the hart never comes to spin in lock() on a lock that a suspended
\* process holds.
C18_NoLockAcrossSwitch == sw_locks = {} /\ kpc # "spin"

\* A process is back in its GETCHAR loop after a switch, another process
\* has exited, and after fs_init a writefile has gone through FILES, DISK
\* and the driver and returned.
C18_Witness ==
    /\ kpc = "getchar_loop"
    /\ sw.owner # NoIdx
    /\ \E i \in Slots : procs[i].state = "Exited"
    /\ blk.avail_index = 2 * (DISK_MAX_SIZE \div SECTOR_SIZE)
    /\ \E a \in DOMAIN umem : umem[a].name = << >>
    /\ locks = {}

\* C19: read_write_disk with sector >= capacity / 512 returns with the
\* caller's buffer, the request buffer, the descriptors, avail.index and
\* last_used_index as they were and the device not notified; a request the
\* device was notified of and answered with a status other than 0 leaves
\* the caller's buffer as it was.
C19_ErrorsLeaveCaller ==
    [][ blk.capacity # NoCap =>
          /\ rw'.sector >= blk.capacity \div SECTOR_SIZE =>
                disk' = disk /\ blk' = blk /\ panic' = ""
          /\ (rw'.sector < blk.capacity \div SECTOR_SIZE /\ rw'.status # 0) =>
                /\ disk' = disk
                /\ blk'.notify = blk.notify + 1
                /\ blk'.req.status = rw'.status ]_vars

\* The last call named a sector past the capacity, after a read that the
\* device served and a request that it failed.
C19_Witness ==
    /\ blk.capacity # NoCap
    /\ rw.sector >= blk.capacity \div SECTOR_SIZE
    /\ blk.req.status # 0
    /\ blk.notify >= 2
    /\ disk # Zeros(DISK_MAX_SIZE)

\* C20: a trap of a user program whose scause is not 8 and an environment
\* call whose a4 is not one of 1..5 make the kernel panic; once it has
\* panicked the hart stays in the wfi loop of the panic handler: no user
\* program runs, sepc is not written, and there is no context switch.
C20_FatalTraps ==
    [][ /\ (kpc = "user" /\ scause' # SCAUSE_ECALL) =>
              kpc' = "halt" /\ panic' = "unexpected trap"
        /\ (kpc = "handle_syscall"
              /\ FrameReg(St, A4) \notin SYS_PUTBYTE .. SYS_WRITEFILE) =>
              kpc' = "halt" /\ panic' = "unexpected syscall"
        /\ panic # "" =>
              /\ kpc' = "halt" /\ panic' = panic
              /\ sepc' = sepc /\ satp' = satp /\ regs' = regs
              /\ sw' = sw /\ CURRENT_PROC' = CURRENT_PROC /\ procs' = procs ]_vars

\* The kernel has panicked on a page fault of a process that ran after a
\* context switch, while another process is Runnable.
C20_Witness ==
    /\ panic = "unexpected trap"
    /\ kpc = "halt"
    /\ scause = 13
    /\ sw.owner # NoIdx
    /\ \E i \in Slots : procs[i].state = "Runnable" /\ procs[i].pid \notin {IDLE_PID, CURRENT_PROC}

\* C21: a turn of the GETCHAR loop either returns to the caller with the
\* character the console delivered, which is not -1, without any yield, or
\* (the console had none) calls yield_now exactly once, which chooses the
\* next Runnable process in turn and leaves the caller in its loop; the
\* hart never halts while a getchar waits; and a caller whose polls find a
\* character in the end, all other processes yielding in the end, returns.
C21_GetCharBlocks ==
    /\ [](AnyWaiting =>
            kpc \in { "user", "user_entry", "handle_syscall", "getchar_loop" })
    /\ [][GetCharPending =>
            LET chosen == FindNext(procs, TryGetIndex(procs, CURRENT_PROC), IDLE_PROC)
            IN  \/ /\ kpc' = "user"
                   /\ regs'[A0] # -1
                   /\ regs'[A0] = ecall'[satp].ret
                   /\ satp' = satp /\ CURRENT_PROC' = CURRENT_PROC
                   /\ sched_trace' = sched_trace /\ sw' = sw /\ procs' = procs
                \/ /\ panic' = ""
                   /\ sched_trace' = Trunc(Append(sched_trace, chosen))
                   /\ CURRENT_PROC' = chosen
                   /\ GetCharWaiting(satp) /\ ecall' = ecall
                   /\ IF chosen = CURRENT_PROC
                      THEN kpc' = "getchar_loop" /\ sw' = sw /\ regs'[SP] = regs[SP]
                      ELSE /\ sw'.owner = TryGetIndex(procs, chosen)
                           /\ RunningCtx \in DOMAIN saved'
                           /\ saved'[RunningCtx].regs[1] = RA_YIELD
                           /\ Rd(kmem', saved'[RunningCtx].sp
                                         + WORD_BYTES * (YieldFrameWords - 1)) = RA_GETCHAR
          ]_vars
    /\ \A tag \in Tags : GetCharWaiting(tag) ~> ~GetCharWaiting(tag)

\* A getchar has returned 'h' to a program that was switched out in its
\* loop and resumed, while two other processes are Runnable and one of
\* them waits in its own getchar.
C21_Witness ==
    /\ kpc = "user"
    /\ satp \in DOMAIN ecall
    /\ ecall[satp].regs[A4] = SYS_GETCHAR
    /\ ecall[satp].ret = 104
    /\ regs[A0] = 104
    /\ sw.expected # << >>
    /\ sw.owner = RunningCtx
    /\ Cardinality(RunnableUsers) >= 3
    /\ \E tag \in Tags \ {satp} : GetCharWaiting(tag)

\* The records of the disk buffer as fs_init walks it: record i starts
\* where record i - 1 ends, rounded up to the sector.
RecordName(off) == Slice(disk, off, NAME_LEN)
RecordMagic(off) == Slice(disk, off + OFF_MAGIC, 6)
RecordSize(off) == Oct2Int(Slice(disk, off + OFF_SIZE, 12))
RECURSIVE RecordOff(_)
RecordOff(i) ==
    IF i = 0 THEN 0
    ELSE LET off == RecordOff(i - 1)
         IN  IF off + HEADER_SIZE > Len(disk) THEN off
             ELSE off + AlignUp(HEADER_SIZE + RecordSize(off).val, SECTOR_SIZE)
RecordEnds(i) ==
    \/ RecordOff(i) + HEADER_SIZE > Len(disk)
    \/ disk[RecordOff(i) + 1] = 0
\* The number of slots fs_init has records for.
Leading == Min({ i \in FileSlots : RecordEnds(i) } \cup { FILES_MAX })
\* File i holds record i.
RecordLoaded(i) ==
    LET off == RecordOff(i)
        size == RecordSize(off).val
    IN  /\ files[i].in_use
        /\ files[i].name = RecordName(off)
        /\ files[i].size = size
        /\ size <= DATA_LEN
        /\ Slice(files[i].data, 0, size) = Slice(disk, off + HEADER_SIZE, size)
\* Record i is one a File can hold.
RecordFits(i) ==
    LET off == RecordOff(i)
        size == RecordSize(off)
    IN  /\ size.ok
        /\ size.val >= 0 /\ size.val <= DATA_LEN
        /\ off + HEADER_SIZE + size.val <= Len(disk)
        /\ Utf8Ok(RecordName(off))
FsBooted == blk.capacity # NoCap

C23_SscratchIsOwnStackTop ==
    /\ [](kpc = "user" =>
            /\ TryGetIndex(procs, CURRENT_PROC) # NoIdx
            /\ procs[TryGetIndex(procs, CURRENT_PROC)].pid # IDLE_PID
            /\ sscratch = StackEnd(TryGetIndex(procs, CURRENT_PROC)))
    /\ [][kpc = "user" =>
            LET i == TryGetIndex(procs, CURRENT_PROC)
                f == StackEnd(i) - WORD_BYTES * FRAME_WORDS
            IN  /\ regs'[SP] = f
                /\ StackOwner(f) = i
                /\ sscratch' = StackEnd(i)
                /\ \E sysno \in 0 .. 6 : RdSeq(kmem', f, FRAME_WORDS) = UserRegs(satp, sysno)
                /\ CURRENT_PROC' = CURRENT_PROC]_vars

\* A program is back in user mode after a yield that chose the caller
\* itself and after context switches, one process having exited.
C23_Witness ==
    /\ kpc = "user"
    /\ sscratch = StackEnd(TryGetIndex(procs, CURRENT_PROC))
    /\ sw.expected # << >>
    /\ \E k \in 1 .. (Len(sched_trace) - 1) :
          sched_trace[k] = sched_trace[k + 1] /\ sched_trace[k] = CURRENT_PROC
    /\ \E i \in Slots : procs[i].state = "Exited"
    /\ TryGetIndex(procs, CURRENT_PROC) >= 2

\* The root page table the MMU walks under a value of satp: Sv32 when bit 31
\* is set, the page number of the table in bits 21..0.
SatpMode(v) == IF v < 0 THEN 1 ELSE 0
SatpPpn(v) == v % PageCount4
SatpDesignates(v, table) == SatpMode(v) = 1 /\ SatpPpn(v) = PageNo(table)

\* The pid that is current when the search of a yield_now starts.
CurrentAtSearch == IF IDLE_PROC = NoPid THEN IDLE_PID ELSE CURRENT_PROC
\* A step is a yield_now that chose another pid than the current one.
YieldSwitches ==
    /\ sched_trace' # sched_trace
    /\ sched_trace' # << >>
    /\ sched_trace'[Len(sched_trace')] # CurrentAtSearch
    /\ panic' = ""

\* C24, the order: a yield_now that chooses another pid does sfence.vma,
\* csrw satp with SATP_SV32 | the address of the root table of the next
\* process, sfence.vma, csrw sscratch with the end of its stack, the store
\* of CURRENT_PROC and then switch_context; satp changes in no other step.
C24_SwitchOrder ==
    /\ [][YieldSwitches =>
            LET next == TryGetIndex(procs', sched_trace'[Len(sched_trace')])
            IN  /\ yield_ops' = Append(SwitchOps, "switch_context")
                /\ satp' = BitOr(SATP_SV32, procs'[next].page_table)
                /\ sscratch' = StackEnd(next)
                /\ CURRENT_PROC' = procs'[next].pid]_vars
    /\ [][satp' # satp =>
            /\ YieldSwitches
            /\ \A k \in DOMAIN yield_ops' :
                  yield_ops'[k] = "csrw satp" =>
                      /\ k > 1 /\ yield_ops'[k - 1] = "sfence.vma"
                      /\ k < Len(yield_ops') /\ yield_ops'[k + 1] = "sfence.vma"]_vars

\* C24: the order above, and after a yield_now that switched the MMU
\* walks the root page table of the process that is current.
C24_SwitchInstallsOwnTable ==
    /\ C24_SwitchOrder
    /\ [](yield_ops # << >> =>
            SatpDesignates(satp, procs[TryGetIndex(procs, CURRENT_PROC)].page_table))

\* A step is a yield_now, called when the idle process exists, whose search
\* finds the pid that is current.
YieldChoosesCaller ==
    /\ IDLE_PROC # NoPid
    /\ sched_trace' # sched_trace
    /\ sched_trace' # << >>
    /\ sched_trace'[Len(sched_trace')] = CURRENT_PROC

\* C25: a yield_now whose search finds the current pid returns to its
\* caller (the GETCHAR loop or kernel_main) with the caller's sp, does not
\* panic, does not call switch_context or write a CSR, and leaves satp,
\* sscratch, CURRENT_PROC and the state, pid and sp of every PCB as they were.
C25_NoOpYield ==
    [][YieldChoosesCaller =>
         /\ panic' = ""
         /\ kpc' = (IF kpc = "kernel_main" THEN "kernel_main" ELSE "getchar_loop")
         /\ regs'[SP] = regs[SP]
         /\ satp' = satp
         /\ sscratch' = sscratch
         /\ CURRENT_PROC' = CURRENT_PROC
         /\ \A i \in Slots : /\ procs'[i].state = procs[i].state
                              /\ procs'[i].pid = procs[i].pid
                              /\ procs'[i].sp = procs[i].sp
         /\ yield_ops' = << >>
         /\ sw' = sw
         /\ saved' = saved]_vars

\* The only Runnable process, switched back to at the exit of another, has
\* polled the console in vain twice since and is in its loop again.
C25_Witness ==
    /\ kpc = "getchar_loop"
    /\ yield_ops = << >>
    /\ sw.expected # << >>
    /\ RunnableUsers = { TryGetIndex(procs, CURRENT_PROC) }
    /\ ExitedSlots # {}
    /\ Len(sched_trace) = 3
    /\ \A k \in 1 .. 3 : sched_trace[k] = CURRENT_PROC

UnusedSlots == { i \in Slots : procs[i].state = "Unused" }

\* A step is a call of create_process by kernel_main, or the first
\* yield_now calling it for the idle process on a full table.
CreateStep ==
    /\ kpc = "kernel_main"
    /\ CURRENT_PROC' = CURRENT_PROC
    /\ \/ \E i \in Slots : procs[i].state = "Unused" /\ procs'[i].state # "Unused"
       \/ panic' = "no free process slots"

\* C26: create_process takes the Unused PCB of the lowest index i, makes
\* it Runnable with pid i + 1 and sp at the last 13 words of stack i, which
\* hold the address of user_entry and twelve zeros, returns i + 1, and
\* leaves the other PCBs and the rest of the stacks as they were; with no
\* Unused PCB it panics and every PCB is as it was.
C26_CreateProcess ==
    [][CreateStep =>
         IF UnusedSlots = {}
         THEN /\ panic' = "no free process slots"
              /\ procs' = procs
              /\ \A a \in DOMAIN kmem' :
                    (\E j \in Slots : StackBase(j) <= a /\ a < StackEnd(j)) =>
                        (a \in DOMAIN kmem /\ kmem'[a] = kmem[a])
         ELSE LET i == CHOOSE f \in UnusedSlots : \A g \in UnusedSlots : f <= g
                  frame == StackBase(i) + STACK_BYTES - 13 * 4
              IN  /\ panic' = ""
                  /\ procs'[i].pid = i + 1
                  /\ procs'[i].state = "Runnable"
                  /\ procs'[i].sp = frame
                  /\ Rd(kmem', frame) = USER_ENTRY_ADDR
                  /\ \A k \in 1 .. 12 : Rd(kmem', frame + 4 * k) = 0
                  /\ regs'[A0] = i + 1
                  /\ \A j \in Slots \ {i} : procs'[j] = procs[j]
                  /\ \A a \in DOMAIN kmem' :
                        (a < frame \/ a >= StackEnd(i)) => (a \in DOMAIN kmem /\ kmem'[a] = kmem[a])]_vars

\* create_process has panicked on a full table in which the idle PCB lies
\* between user PCBs and some PCBs are Exited.
C26_Witness ==
    /\ panic = "no free process slots"
    /\ UnusedSlots = {}
    /\ \E i \in Slots : procs[i].state = "Exited"
    /\ TryGetIndex(procs, IDLE_PID) \in 1 .. (PROCS_MAX - 2)
    /\ procs[PROCS_MAX - 1].pid = PROCS_MAX
    /\ procs[PROCS_MAX - 1].state = "Runnable"

\* C27, the first resume: switch_context returns into user_entry with
\* s0..s11 = 0, and user_entry leaves for user mode with sepc = USER_BASE.
C27_FirstResume ==
    /\ [](kpc = "user_entry" =>
            /\ regs[RA] = USER_ENTRY_ADDR
            /\ \A k \in S0 .. S11 : regs[k] = 0
            /\ sw.expected = << >>)
    /\ [][kpc = "user_entry" => (kpc' = "user" /\ sepc' = USER_BASE)]_vars

\* C27: the first resume as above, user_entry sets sstatus = SPIE|SUM, and
\* so SUM is set whenever the kernel handles a system call of the process
\* and no access of READFILE or WRITEFILE to a user buffer faults.
C27_UserEntrySetsSum ==
    /\ C27_FirstResume
    /\ [][kpc = "user_entry" => sstatus' = SSTATUS_SPIE + SSTATUS_SUM]_vars
    /\ [](kpc = "handle_syscall" => UserAccessOk(St))
    /\ [](panic = "unexpected trap" => sepc # KERNEL_FAULT_PC)

\* The Runnable PCBs that are not the one whose pid is CURRENT_PROC.
Suspended ==
    { i \in Slots : procs[i].state = "Runnable" /\ i # TryGetIndex(procs, CURRENT_PROC) }
\* The 13 words at the sp of PCB i are those of the context that waits
\* there: of the context switched out on stack o, or of a process that
\* has not run yet.
FrameAtSp(i, o) ==
    RdSeq(kmem, procs[i].sp, CALLEE_SAVED) =
        (IF o \in DOMAIN saved THEN saved[o].regs
         ELSE << USER_ENTRY_ADDR, 0, 0, 0, 0, 0, 0, 0, 0, 0, 0, 0, 0 >>)
InOwnStack(i) ==
    /\ StackBase(i) <= procs[i].sp
    /\ procs[i].sp + CALLEE_SAVED * WORD_BYTES <= StackEnd(i)
InBootStack(i) ==
    /\ STACK_TOP - STACK_BYTES <= procs[i].sp
    /\ procs[i].sp + CALLEE_SAVED * WORD_BYTES <= STACK_TOP

\* C28 as stated: the sp of every Runnable PCB that is not the current
\* one, the idle PCB included, points into the stack array of that PCB
\* with 13 words above it, and these are the ra, s0..s11 that
\* switch_context restores for it.
C28_SpInOwnStack ==
    \A i \in Suspended : InOwnStack(i) /\ FrameAtSp(i, i)

\* C28, amended: the same for every PCB but the idle one; the sp of the
\* idle PCB, once the boot context is switched away from, points into the
\* boot stack, where the 13 words of the boot context lie.
C28_SpInOwnOrBootStack ==
    \A i \in Suspended :
        IF procs[i].pid = IDLE_PID
        THEN InBootStack(i) /\ BootStack \in DOMAIN saved /\ FrameAtSp(i, BootStack)
        ELSE InOwnStack(i) /\ FrameAtSp(i, i)

\* A process runs while the idle PCB, a process that was switched out in
\* its GETCHAR loop and a process that has not run yet wait.
C28_Witness ==
    /\ kpc = "user"
    /\ \E i \in Suspended : procs[i].pid = IDLE_PID /\ InBootStack(i)
    /\ \E i \in Suspended : i \in DOMAIN saved /\ saved[i].regs[1] = RA_YIELD
    /\ \E i \in Suspended : procs[i].pid # IDLE_PID /\ i \notin DOMAIN saved

\* ------------------------------------------------------------------ C29
\* The stores of an accepted request in program order.
KickOps(is_write) ==
    << "br.sector", "br.req_type" >> \o (IF is_write THEN << "br.data" >> ELSE << >>)
    \o << "descs[0]", "descs[1]", "descs[2]", "avail.ring", "avail.index", "fence",
          "QUEUE_NOTIFY", "last_used_index" >>

\* A step in which QUEUE_NOTIFY is written.
NotifyStep == blk'.notify # blk.notify

\* C29: for every accepted request read_write_disk first writes the
\* header of the request and, for a write, its data, then descriptors 0
\* (16 bytes, NEXT, next 1), 1 (512 bytes, NEXT, and WRITE exactly for a
\* read, next 2) and 2 (1 byte, WRITE), then virtq_kick stores head 0 in
\* avail.ring[avail.index % 16], increments avail.index and after that
\* writes QUEUE_NOTIFY once: what the memory holds at the notification
\* describes the request of the call.
C29_NotifyAfterRequest ==
    [][NotifyStep =>
        LET w == rw'.is_write
            paddr == blk.req_paddr
            m == blk'.seen
            slot == (blk.avail_index % 16) + 1
        IN  /\ blk'.notify = blk.notify + 1
            /\ blk'.ops = KickOps(w)
            /\ m.req.sector = rw'.sector
            /\ m.req.req_type = IF w THEN VIRTIO_BLK_T_OUT ELSE VIRTIO_BLK_T_IN
            /\ m.req.data = IF w THEN Slice(disk, rw'.offset, SECTOR_SIZE) ELSE blk.req.data
            /\ m.descs = << [ addr |-> paddr, len |-> 16, flags |-> VIRTQ_DESC_F_NEXT,
                              next |-> 1 ],
                            [ addr |-> paddr + 16, len |-> 512,
                              flags |-> IF w THEN VIRTQ_DESC_F_NEXT
                                        ELSE VIRTQ_DESC_F_NEXT + VIRTQ_DESC_F_WRITE,
                              next |-> 2 ],
                            [ addr |-> paddr + 528, len |-> 1, flags |-> VIRTQ_DESC_F_WRITE,
                              next |-> 0 ] >>
            /\ blk'.descs = m.descs
            /\ m.head = 0
            /\ blk'.ring = [ blk.ring EXCEPT ![slot] = 0 ]
            /\ m.avail_index = blk.avail_index + 1
            /\ blk'.avail_index = blk.avail_index + 1
            /\ blk'.last_used_index = blk.last_used_index + 1 ]_vars

\* The device is notified of a write whose slot of the ring is found by
\* the remainder: avail.index has passed 16.
C29_Witness ==
    /\ Waiting
    /\ blk.handled # blk.notify
    /\ blk.avail_index > VIRTQ_ENTRY_NUM
    /\ blk.seen.req.req_type = VIRTIO_BLK_T_OUT
    /\ blk.seen.req.sector = 1
    /\ blk.seen.avail_index = blk.avail_index

\* ------------------------------------------------------------------ C30
SectorCount == DISK_MAX_SIZE \div SECTOR_SIZE

\* C30: an accepted call of read_write_disk returns only when the device's
\* used index equals last_used_index; in the sector loops no other process
\* is switched to; when the device handles every notification in the end,
\* every call returns and fs_init and fs_flush come to an end, having made
\* one request per sector of the disk buffer, in ascending order.
C30_CompletionWait ==
    /\ [][Waiting /\ ~Waiting' =>
            /\ blk.used_index = blk.last_used_index
            /\ blk.handled = blk.notify
            /\ blk'.used_index = blk.avail_index ]_vars
    /\ [][InDiskLoop =>
            /\ CURRENT_PROC' = CURRENT_PROC
            /\ procs' = procs
            /\ satp' = satp
            /\ sscratch' = sscratch
            /\ sched_trace' = sched_trace
            /\ yield_ops' = yield_ops ]_vars
    /\ [][NotifyStep =>
            /\ InDiskLoop
            /\ kpc' = kpc
            /\ blk'.seen.req.sector = blk.notify % SectorCount
            /\ rw'.sector = blk.notify % SectorCount
            /\ rw'.offset = rw'.sector * SECTOR_SIZE
            /\ rw'.is_write = (kpc = "fs_flush") ]_vars
    /\ [][InDiskLoop # InDiskLoop' =>
            /\ blk.notify % SectorCount = 0
            /\ blk'.notify = blk.notify
            /\ blk.handled = blk.notify ]_vars
    /\ Waiting ~> ~Waiting
    /\ InDiskLoop ~> (~InDiskLoop /\ panic = "" /\ blk.notify > 0)

\* fs_flush waits for the last sector with the device still busy, a dot
\* printed, and other programs Runnable.
C30_Witness ==
    /\ kpc = "fs_flush"
    /\ Waiting
    /\ VirtqIsBusy(blk)
    /\ console = 46
    /\ rw.sector = SectorCount - 1
    /\ Cardinality(RunnableUsers) >= 2

\* ------------------------------------------------------------------ C31
\* Every in_use file of the table has a size of at most DATA_LEN.
SizesFit == \A i \in FileSlots : files[i].in_use => files[i].size <= DATA_LEN

\* C31: fs_flush stays inside the disk buffer: with a file table whose
\* in_use files have sizes of at most 1024, both slots in use and the first
\* file larger than 512 bytes included, every header and every copy of
\* 1024 bytes of data lands inside the buffer, so the flush does not make
\* the kernel panic.
C31_FlushStaysInBuffer ==
    [][blk.capacity # NoCap /\ panic = "" /\ SizesFit => panic' = ""]_vars

\* ------------------------------------------------------------------ C32
\* The in_use files whose NUL-truncated name is the name asked for.
StoredAs(name) == { i \in FileSlots : files[i].in_use /\ CStrUntilNul(files[i].name) = name }

\* A step of the SYS_READFILE | SYS_WRITEFILE arm.
FileCallStep == Dispatch(SYS_READFILE) \/ Dispatch(SYS_WRITEFILE)

\* C32: file lookup resolves only in_use files: for every name asked for,
\* the empty name included, fs_lookup returns a slot only if the slot is
\* in_use and its NUL-truncated name is the name; so READFILE and WRITEFILE
\* return something else than -1 only for a file of the store, and
\* WRITEFILE changes no slot that is not in_use.
C32_LookupResolvesInUse ==
    [][FileCallStep =>
        LET name == umem[satp].name
            i == FsLookup(files, name)
        IN  /\ i # NoIdx => i \in StoredAs(name)
            /\ (kpc' = "user" /\ ecall'[satp].ret # -1) => StoredAs(name) # {}
            /\ \A j \in FileSlots : ~files[j].in_use => files'[j] = files[j] ]_vars

\* ------------------------------------------------------------------ C33
\* C33: the value yield_now writes to satp is a well-formed Sv32 satp for
\* the next process: bit 31 is set and bits 21..0 hold the physical address
\* of the root page table of that process divided by 4096.
C33_SatpWellFormed ==
    [][satp' # satp =>
        LET next == TryGetIndex(procs', CURRENT_PROC')
        IN  /\ next # NoIdx
            /\ SatpMode(satp') = 1
            /\ satp' % PageCount4 = PageNo(procs'[next].page_table) ]_vars

\* ------------------------------------------------------------------ C34
\* Requests published in the ring and not yet counted as used by the device.
Outstanding == (blk.avail_index - blk.used_index + 65536) % 65536

\* C34: at most one request is outstanding: avail.index - used.index
\* (mod 2^16) is 0 or 1 in every state, read_write_disk returns from an
\* accepted call with last_used_index = avail.index = used.index, and the
\* request buffer and the descriptors are written by the driver only while
\* no request is outstanding.
C34_SingleOutstanding ==
    /\ [](Outstanding \in {0, 1})
    /\ [](~Waiting => /\ blk.last_used_index = blk.avail_index
                      /\ blk.used_index = blk.avail_index)
    /\ [][Waiting /\ ~Waiting' =>
            /\ blk'.last_used_index = blk'.avail_index
            /\ blk'.used_index = blk'.avail_index ]_vars
    /\ [][NotifyStep => Outstanding = 0 /\ blk.handled = blk.notify /\ Outstanding' = 1]_vars
    /\ [][~NotifyStep =>
            /\ blk'.descs = blk.descs
            /\ blk'.ring = blk.ring
            /\ blk'.avail_index = blk.avail_index
            /\ blk'.req.sector = blk.req.sector
            /\ blk'.req.req_type = blk.req.req_type
            /\ Outstanding = 0 => blk'.req = blk.req ]_vars

\* A read of fs_init is outstanding behind requests the device has failed
\* and served.
C34_Witness ==
    /\ kpc = "fs_init"
    /\ Outstanding = 1
    /\ blk.used_index = 2
    /\ blk.last_used_index = 3
    /\ blk.req.status = 1

C36_LifeCycle ==
    /\ [][\A i \in Slots :
            /\ procs'[i].state # procs[i].state =>
                  \/ procs[i].state = "Unused" /\ procs'[i].state = "Runnable"
                  \/ /\ procs[i].state = "Runnable" /\ procs'[i].state = "Exited"
                     /\ procs[i].pid = CURRENT_PROC
                     /\ Dispatch(SYS_EXIT)
            /\ procs[i].state # "Unused" => procs'[i].pid = procs[i].pid
            /\ (procs[i].state = "Unused" /\ procs'[i].state # "Unused") =>
                  \/ procs'[i].pid = i + 1
                  \/ /\ procs'[i].pid = IDLE_PID
                     /\ IDLE_PROC = NoPid
                     /\ IDLE_PROC' = IDLE_PID ]_vars
    /\ [](Cardinality({ i \in Slots : procs[i].pid = IDLE_PID /\ procs[i].state # "Unused" }) <= 1)
    /\ []((UnusedSlots = {} /\ panic = "") =>
            CreateProcess(St).panic = "no free process slots")

\* create_process has panicked on a table without an Unused PCB in which
\* every process but the idle one has exited.
C36_Witness ==
    /\ panic = "no free process slots"
    /\ UnusedSlots = {}
    /\ IDLE_PROC # NoPid
    /\ \A i \in Slots : procs[i].pid # IDLE_PID => procs[i].state = "Exited"

\* ------------------------------------------------------------------ C37
\* The in_use files are the first slots of the table.
InUsePrefix(fs) == \A i \in FileSlots : fs[i].in_use => \A j \in 0 .. (i - 1) : fs[j].in_use

\* The offset of the record of slot i in an archive of the table fs.
RECURSIVE RecordOffset(_, _)
RecordOffset(fs, i) ==
    IF i = 0 THEN 0
    ELSE RecordOffset(fs, i - 1) + AlignUp(HEADER_SIZE + fs[i - 1].size, SECTOR_SIZE)

\* The drive holds the record of every in_use file of the table fs.
Persisted(fs, drive) ==
    \A i \in FileSlots : fs[i].in_use =>
        LET off == RecordOffset(fs, i)
        IN  /\ off + HEADER_SIZE + fs[i].size <= Len(drive)
            /\ Slice(drive, off, HEADER_SIZE) = TarHeaderBytes(fs[i].name, fs[i].size)
            /\ Slice(drive, off + HEADER_SIZE, fs[i].size) = SubSeq(fs[i].data, 1, fs[i].size)

\* C37: in every state the in_use files form a prefix of FILES (only
\* fs_init sets in_use, and in slot order), and so an fs_flush, which stops
\* at the first slot not in use, leaves the record of every in_use file
\* on the drive.
C37_FlushPersistsInUse ==
    /\ [](InUsePrefix(files))
    /\ [][\A i \in FileSlots : (~files[i].in_use /\ files'[i].in_use) => KernelFsInit]_vars
    /\ [][(TarFlush /\ panic = "") =>
            /\ panic' = ""
            /\ files' = files
            /\ Persisted(files, blk'.data)]_vars

\* The part that does not depend on the size of the disk buffer: the
\* prefix, and the records of a flush that ran to its end.
FlushPersistsUnlessPanic ==
    /\ [](InUsePrefix(files))
    /\ [][\A i \in FileSlots : (~files[i].in_use /\ files'[i].in_use) => KernelFsInit]_vars
    /\ [][(TarFlush /\ panic = "" /\ panic' = "") =>
            /\ files' = files
            /\ Persisted(files, blk'.data)]_vars
====
